---- MODULE Spec2Model ----
(***************************************************************************)
(* Gesture engine of HandiLearn2: MediaPipeProvider (static classifier,    *)
(* pinch hysteresis, wave and swipe detectors, debounce and listener       *)
(* fan-out), modelled from src/src/core/input/providers/mediapipe.js.      *)
(*                                                                         *)
(* Units.  Landmark coordinates are integers in hundredths of the          *)
(* normalised image unit (0.05 is 5).  Times are integer milliseconds as   *)
(* returned by Date.now().  Every comparison the code makes on a square    *)
(* root or a quotient is made here on the squares / cross products, which  *)
(* is the same comparison over the reals:                                  *)
(*   d < 0.05            <=>  d^2 < 5^2                                    *)
(*   tw / mw > 1.1       <=>  100 tw^2 > 121 mw^2   (x/0 = Infinity, 0/0   *)
(*                            = NaN compare the same way)                  *)
(*   na . nb > 0.5       <=>  a.b > 0 /\ 4 (a.b)^2 > |a|^2 |b|^2           *)
(*   dx / (dt/1000) > 0.5 <=> 20 |dx| > dt                                 *)
(* The maps the code only writes and never reads (gestureConfidence,       *)
(* swipeLastPosition, swipeVelocity) are not carried.                      *)
(*                                                                         *)
(* Frame loop.  startTracking waits for the camera and the video, then     *)
(* calls processFrame, which sends a frame to the hand tracker, waits for  *)
(* it and queues itself again; the tracker hands the results of a frame to *)
(* handleResults before the wait ends.  The loop specification follows     *)
(* each of these steps (starting, sending, scheduled).  In the other       *)
(* specifications a turn of the loop is one step, FrameStep, taken while   *)
(* tracking, the camera is granted at once, and the three counters stay 0. *)
(*                                                                         *)
(* Input manager.  InputManager (input-manager.js) loads a provider module *)
(* by name, initialises it and hands its five methods on to it.  The       *)
(* manager specification follows loadProvider across its two waits (the    *)
(* import and provider.initialize()) and records a method handed on to the *)
(* provider by its name; what the provider then does is the provider       *)
(* operation modelled here.  In the other specifications the manager has   *)
(* loaded 'mediapipe' and stays as it is.                                  *)
(*                                                                         *)
(* NaN.  A point carries the flag nan: its x coordinate is NaN.  The       *)
(* frames set it on the wrist landmark only.  NaN propagates through       *)
(* every sum, product, quotient, square root and Math.abs, and every       *)
(* comparison with a NaN operand is false; each comparison below that      *)
(* reads an x coordinate is guarded accordingly.                           *)
(***************************************************************************)
EXTENDS Integers, Sequences, FiniteSets, TLC

VARIABLES
  now,                    \* last value returned by Date.now()
  isTracking,
  gestureCallbacks,       \* sequence of listener ids, registration order
  lastGesture, lastGestureTime,
  wavePositions, waveDirectionChanges, waveStartTime, waveLastDirection,
  lastPinchDistance, isPinching, pinchStartTime,
  swipePositions, swipeStartTime, lastSwipeTime,
  delivered,              \* listener calls made by the last handleResults
  candidates,             \* what detectStaticGesture returned, per hand handled
  threw,                  \* the last handleResults raised a TypeError
  lastFrame,              \* the results object of the last handleResults
  pending,                \* frames still to be fed (scripted runs only)
  scenario,               \* name of the scripted run, "free" otherwise
  fed,                    \* number of handleResults calls so far
  waveLog, swipeLog, staticLog, \* per hand: the last delivery and their number
  reversalLog,            \* per hand with one reversal counted: when it was counted
  handUpdateCallbacks,    \* sequence of hand-update listener ids
  handUpdates,            \* hand-update listener calls made by the last handleResults
  starting,               \* startTracking calls waiting for the camera or the video
  sending,                \* processFrame calls waiting for hands.send
  scheduled,              \* processFrame callbacks queued by requestAnimationFrame
  provider,               \* InputManager.provider: "null" or the name of the module it came from
  providerInitialized,    \* provider.isInitialized
  isInitialized,          \* InputManager.isInitialized
  onReadyCallbacks,       \* sequence of ready-callback ids
  load,                   \* the loadProvider call in progress: its argument and where it waits
  attempts,               \* the arguments of the loadProvider calls so far
  passed,                 \* the callbacks passed to onReady so far
  readyCalls,             \* per ready callback: how many times it was invoked
  managerCalls,           \* number of manager method calls so far
  forwarded,              \* the methods handed on to the provider, in order
  thrown                  \* the last manager method call threw 'Input manager not initialized'

handState == <<lastGesture, lastGestureTime,
               wavePositions, waveDirectionChanges, waveStartTime,
               waveLastDirection, lastPinchDistance, isPinching,
               pinchStartTime, swipePositions, swipeStartTime, lastSwipeTime>>

ghost == <<delivered, candidates, threw, lastFrame, fed, waveLog, swipeLog, staticLog,
           reversalLog, handUpdates>>

loops == <<starting, sending, scheduled>>

manager == <<provider, providerInitialized, isInitialized, onReadyCallbacks, load,
             attempts, passed, readyCalls, managerCalls, forwarded, thrown>>

vars == <<now, isTracking, gestureCallbacks, handUpdateCallbacks, handState, ghost,
          pending, scenario, manager, loops>>

----------------------------------------------------------------------------
(* Bounds and program constants *)

T0 == 100000              \* Date.now() when the page starts (epoch ms, > 3000)
MaxListeners == 1
MaxFrames == 3            \* frames per run of the dispatch specification
MaxPoseFrames == 2        \* frames per run of the pose specification
MaxSwipeFrames == 10      \* frames per run of the swipe specification
MaxWaveFrames == 10       \* frames per run of the wave specification
MaxNaNFrames == 4         \* frames per run of the non-finite-wrist specification
MaxHandsFrames == 2       \* frames per run of the two-hand specification
MaxSubscriptions == 3     \* registrations at a time in the fan-out specification
MaxFanOutFrames == 1      \* frames per run of the fan-out specification
MaxFingerFrames == 1      \* frames per run of the finger specification
MaxDriftFrames == 6       \* frames per run of the slow-wrist specification
MaxLimitFrames == 6       \* frames per run of the swipe-threshold specification
MaxAxesFrames == 5        \* frames per run of the swipe-direction specification
MaxLoopFrames == 3        \* frames per run of the loop specification
MaxStarts == 2            \* startTracking calls waiting at a time
MaxLoops == 2             \* processFrame loops at a time
MaxGapFrames == 4         \* frames per run of the interrupted-gesture specification
MaxOrderFrames == 5       \* frames per run of the delivery-order specification
MaxIdleFrames == 5        \* frames per run of the no-listener specification
MaxTickFrames == 5        \* frames per run of the coarse-clock specification
MaxPointFrames == 1       \* frames per run of the pointing specification
MaxReady == 2             \* ready callbacks 1..MaxReady
MaxCalls == 2             \* manager method calls per run

PINCH_DISTANCE_THRESHOLD == 5
PINCH_STATE_CHANGE_THRESHOLD == 2
SWIPE_THRESHOLD == 15
DEBOUNCE_MS == 500
SWIPE_REFRACTORY_MS == 1000
SWIPE_WINDOW_MS == 500
SWIPE_MIN_SAMPLES == 5
WAVE_WINDOW_MS == 2000
WAVE_RESET_MS == 3000
WAVE_COOLDOWN_MS == 1000
WAVE_MIN_DELTA == 3

----------------------------------------------------------------------------
(* Plain helpers *)

Abs(n) == IF n < 0 THEN -n ELSE n

EmptyMap == [k \in {} |-> 0]          \* the JS object {}

Put(f, k, v) == [x \in (DOMAIN f) \cup {k} |-> IF x = k THEN v ELSE f[x]]

Pt(x, y, z) == [x |-> x, y |-> y, z |-> z, nan |-> FALSE]

\* neither point has a NaN coordinate
finite(a, b) == ~a.nan /\ ~b.nan

----------------------------------------------------------------------------
(* Geometry utilities *)

vectorBetween(a, b) ==
  [x |-> b.x - a.x, y |-> b.y - a.y, z |-> b.z - a.z, nan |-> a.nan \/ b.nan]

dotProduct(a, b) == a.x * b.x + a.y * b.y + a.z * b.z

\* distance3D(a, b)^2
distance3DSquared(a, b) ==
  (a.x - b.x) * (a.x - b.x) + (a.y - b.y) * (a.y - b.y) + (a.z - b.z) * (a.z - b.z)

\* dotProduct(normalizeVector(a), normalizeVector(b)) > num/den, 0 < num/den < 1
alignmentAbove(a, b, num, den) ==
  /\ finite(a, b)
  /\ dotProduct(a, b) > 0
  /\ den * den * dotProduct(a, b) * dotProduct(a, b)
       > num * num * dotProduct(a, a) * dotProduct(b, b)

----------------------------------------------------------------------------
(* Landmarks: a JS array, index 0 = wrist.  landmarks[i] is Lm(l, i);      *)
(* reading a coordinate of landmarks[i] with i >= length is a TypeError.   *)

Lm(landmarks, i) == landmarks[i + 1]

Missing(landmarks, i) == i >= Len(landmarks)

----------------------------------------------------------------------------
(* Finger extension classifier *)

\* the landmark indices isFingerExtendedImproved dereferences
fingerReads(fingerIndex) ==
  {0, fingerIndex * 4 + 1, fingerIndex * 4 + 2, fingerIndex * 4 + 3, fingerIndex * 4 + 4}
    \cup (IF fingerIndex = 1 THEN {12} ELSE {})

fingerThrows(landmarks, fingerIndex) ==
  \E i \in fingerReads(fingerIndex) : Missing(landmarks, i)

\* METHOD 1: distanceRatio > num/100
distanceRatioAbove(landmarks, fingerIndex, num) ==
  LET wrist == Lm(landmarks, 0)
      mcp   == Lm(landmarks, fingerIndex * 4 + 1)
      tip   == Lm(landmarks, fingerIndex * 4 + 4)
  IN  /\ finite(tip, wrist) /\ finite(mcp, wrist)
      /\ 100 * 100 * distance3DSquared(tip, wrist) > num * num * distance3DSquared(mcp, wrist)

\* METHOD 2: alignmentMcpPip > num/10 && alignmentPipDip > num/10
straightAbove(landmarks, fingerIndex, num) ==
  LET wrist == Lm(landmarks, 0)
      mcp   == Lm(landmarks, fingerIndex * 4 + 1)
      pip   == Lm(landmarks, fingerIndex * 4 + 2)
      dip   == Lm(landmarks, fingerIndex * 4 + 3)
      wristToMcp == vectorBetween(wrist, mcp)
      mcpToPip   == vectorBetween(mcp, pip)
      pipToDip   == vectorBetween(pip, dip)
  IN  /\ alignmentAbove(wristToMcp, mcpToPip, num, 10)
      /\ alignmentAbove(mcpToPip, pipToDip, num, 10)

\* METHOD 3: indexToMiddleDist > mcpToMiddleDist * 0.7 (index finger only)
isSeparatedFromOthers(landmarks, fingerIndex) ==
  /\ fingerIndex = 1
  /\ LET mcp       == Lm(landmarks, fingerIndex * 4 + 1)
         tip       == Lm(landmarks, fingerIndex * 4 + 4)
         middleTip == Lm(landmarks, 12)
     IN  /\ finite(tip, middleTip) /\ finite(mcp, middleTip)
         /\ 100 * distance3DSquared(tip, middleTip) > 49 * distance3DSquared(mcp, middleTip)

\* isFingerExtendedImproved with the stricter rule applied to every finger
isFingerExtendedStrict(landmarks, fingerIndex) ==
  /\ distanceRatioAbove(landmarks, fingerIndex, IF fingerIndex = 1 THEN 110 ELSE 120)
  /\ straightAbove(landmarks, fingerIndex, IF fingerIndex = 1 THEN 5 ELSE 7)

isFingerExtendedImproved(landmarks, fingerIndex) ==
  IF fingerIndex = 1
  THEN \/ distanceRatioAbove(landmarks, fingerIndex, 110)
       \/ straightAbove(landmarks, fingerIndex, 5)
       \/ isSeparatedFromOthers(landmarks, fingerIndex)
  ELSE /\ distanceRatioAbove(landmarks, fingerIndex, 120)
       /\ straightAbove(landmarks, fingerIndex, 7)

----------------------------------------------------------------------------
(* Static gesture classifier *)

\* { name, direction?, strength?, duration?, confidence: 0.9 }; an absent
\* direction is "none", an absent number is -1; strength is in percent
GestureRec(name, direction, strength, duration) ==
  [name |-> name, direction |-> direction, strength |-> strength, duration |-> duration]

Gesture(name, direction) == GestureRec(name, direction, -1, -1)

\* Math.sqrt on the distances the frames produce (floor on a non-square)
ISqrt(n) == CHOOSE k \in 0..n : k * k <= n /\ (k + 1) * (k + 1) > n

\* Math.max(0, 1 - thumbIndexDistance / PINCH_DISTANCE_THRESHOLD), in percent
pinchStrength(distance) ==
  IF 100 - (100 * distance) \div PINCH_DISTANCE_THRESHOLD < 0 THEN 0
  ELSE 100 - (100 * distance) \div PINCH_DISTANCE_THRESHOLD

NoGesture == Gesture("null", "none")       \* detectStaticGesture returned null

\* pointingDirection with the diagonal test made before the depth test
pointingDirectionDiagonalFirst(dx, dy, dz) ==
  IF Abs(dx) > 3 /\ Abs(dy) > 3
  THEN (IF dx > 0 /\ dy < 0 THEN "top-right"
        ELSE IF dx < 0 /\ dy < 0 THEN "top-left"
        ELSE IF dx > 0 /\ dy > 0 THEN "bottom-right"
        ELSE "bottom-left")
  ELSE IF Abs(dz) > 5 /\ 2 * Abs(dz) > Abs(dx) /\ 2 * Abs(dz) > Abs(dy)
       THEN (IF dz < 0 THEN "forward" ELSE "backward")
       ELSE IF Abs(dx) > Abs(dy)
            THEN (IF dx > 0 THEN "right" ELSE "left")
            ELSE (IF dy > 0 THEN "down" ELSE "up")

\* pointingDirection calling |dx| = |dy| horizontal
pointingDirectionTieHorizontal(dx, dy, dz) ==
  IF Abs(dz) > 5 /\ 2 * Abs(dz) > Abs(dx) /\ 2 * Abs(dz) > Abs(dy)
  THEN (IF dz < 0 THEN "forward" ELSE "backward")
  ELSE IF Abs(dx) > 3 /\ Abs(dy) > 3
       THEN (IF dx > 0 /\ dy < 0 THEN "top-right"
             ELSE IF dx < 0 /\ dy < 0 THEN "top-left"
             ELSE IF dx > 0 /\ dy > 0 THEN "bottom-right"
             ELSE "bottom-left")
       ELSE IF Abs(dx) >= Abs(dy)
            THEN (IF dx > 0 THEN "right" ELSE "left")
            ELSE (IF dy > 0 THEN "down" ELSE "up")

\* the direction block of the POINT branch
pointingDirection(dx, dy, dz) ==
  LET horizontalMag == Abs(dx)
      verticalMag   == Abs(dy)
      depthMag      == Abs(dz)
  IN  IF depthMag > 5 /\ 2 * depthMag > horizontalMag /\ 2 * depthMag > verticalMag
      THEN (IF dz < 0 THEN "forward" ELSE "backward")
      ELSE IF horizontalMag > 3 /\ verticalMag > 3
           THEN (IF dx > 0 /\ dy < 0 THEN "top-right"
                 ELSE IF dx < 0 /\ dy < 0 THEN "top-left"
                 ELSE IF dx > 0 /\ dy > 0 THEN "bottom-right"
                 ELSE IF dx < 0 /\ dy > 0 THEN "bottom-left"
                 ELSE "null")
           ELSE IF horizontalMag > verticalMag
                THEN (IF dx > 0 THEN "right" ELSE "left")
                ELSE (IF dy > 0 THEN "down" ELSE "up")

\* the direction of a point gesture from indexTip - wrist; with dx = NaN the
\* depth, diagonal and horizontal tests are all false
pointDirectionOf(wrist, indexTip) ==
  IF finite(wrist, indexTip)
  THEN pointingDirection(indexTip.x - wrist.x, indexTip.y - wrist.y, indexTip.z - wrist.z)
  ELSE IF indexTip.y - wrist.y > 0 THEN "down" ELSE "up"

\* pinchAfter without the exit margin: pinching ends above 0.05
pinchAfterNoMargin(wasPinching, distSq) ==
  IF ~wasPinching /\ distSq < PINCH_DISTANCE_THRESHOLD * PINCH_DISTANCE_THRESHOLD
  THEN TRUE
  ELSE IF wasPinching /\ distSq > PINCH_DISTANCE_THRESHOLD * PINCH_DISTANCE_THRESHOLD
       THEN FALSE
       ELSE wasPinching

\* the hysteresis update: the value of isPinching[handId] after the frame
pinchAfter(wasPinching, distSq) ==
  IF ~wasPinching /\ distSq < PINCH_DISTANCE_THRESHOLD * PINCH_DISTANCE_THRESHOLD
  THEN TRUE
  ELSE IF wasPinching /\ distSq > (PINCH_DISTANCE_THRESHOLD + PINCH_STATE_CHANGE_THRESHOLD)
                                   * (PINCH_DISTANCE_THRESHOLD + PINCH_STATE_CHANGE_THRESHOLD)
       THEN FALSE
       ELSE wasPinching

\* poseGesture with the POINT test reading the index finger only
poseGestureIndexOnly(landmarks, indexFingerExtended, middleFingerExtended, ringFingerExtended, pinkyFingerExtended) ==
  IF indexFingerExtended
  THEN Gesture("point", pointDirectionOf(Lm(landmarks, 0), Lm(landmarks, 8)))
  ELSE IF ~middleFingerExtended /\ ~ringFingerExtended /\ ~pinkyFingerExtended
       THEN Gesture("grab", "none")
       ELSE NoGesture

\* poseGesture with the OPEN test not reading the pinky
poseGestureOpenLoose(landmarks, indexFingerExtended, middleFingerExtended, ringFingerExtended, pinkyFingerExtended) ==
  IF indexFingerExtended /\ ~middleFingerExtended
     /\ ~ringFingerExtended /\ ~pinkyFingerExtended
  THEN Gesture("point", pointDirectionOf(Lm(landmarks, 0), Lm(landmarks, 8)))
  ELSE IF indexFingerExtended /\ middleFingerExtended /\ ringFingerExtended
       THEN Gesture("open", "none")
       ELSE IF ~indexFingerExtended /\ ~middleFingerExtended
               /\ ~ringFingerExtended /\ ~pinkyFingerExtended
            THEN Gesture("grab", "none")
            ELSE NoGesture

\* the classification that follows the pinch block
poseGesture(landmarks, indexFingerExtended, middleFingerExtended, ringFingerExtended, pinkyFingerExtended) ==
  IF indexFingerExtended /\ ~middleFingerExtended
     /\ ~ringFingerExtended /\ ~pinkyFingerExtended
  THEN Gesture("point", pointDirectionOf(Lm(landmarks, 0), Lm(landmarks, 8)))
  ELSE IF indexFingerExtended /\ middleFingerExtended
          /\ ringFingerExtended /\ pinkyFingerExtended
       THEN Gesture("open", "none")
       ELSE IF ~indexFingerExtended /\ ~middleFingerExtended
               /\ ~ringFingerExtended /\ ~pinkyFingerExtended
            THEN Gesture("grab", "none")
            ELSE NoGesture

\* S is the record of the per-hand maps.
\* if (this.lastPinchDistance[handId] === undefined) { ... }
initPinch(S, handId, thumbIndexDistance) ==
  IF handId \notin DOMAIN S.lastPinchDistance
  THEN [S EXCEPT !.lastPinchDistance = Put(@, handId, thumbIndexDistance),
                 !.isPinching = Put(@, handId, FALSE),
                 !.pinchStartTime = Put(@, handId, 0)]
  ELSE S

\* storePinch restarting the pinch clock on every pinching frame
storePinchRestarting(S, handId, wasPinching, nowPinching, thumbIndexDistance, t) ==
  [S EXCEPT !.isPinching = Put(@, handId, nowPinching),
            !.pinchStartTime = IF nowPinching THEN Put(@, handId, t) ELSE @,
            !.lastPinchDistance = Put(@, handId, thumbIndexDistance)]

\* the writes of the hysteresis block and of "Update last distance"
storePinch(S, handId, wasPinching, nowPinching, thumbIndexDistance, t) ==
  [S EXCEPT !.isPinching = Put(@, handId, nowPinching),
            !.pinchStartTime = IF ~wasPinching /\ nowPinching THEN Put(@, handId, t) ELSE @,
            !.lastPinchDistance = Put(@, handId, thumbIndexDistance)]

updatePinch(S, handId, distSq, thumbIndexDistance, t) ==
  storePinch(S, handId, S.isPinching[handId], pinchAfter(S.isPinching[handId], distSq),
             thumbIndexDistance, t)

\* staticResult with the pose classification tried before the pinch
poseBeforePinch(pose, isPinch, pinch) ==
  IF pose # NoGesture THEN pose ELSE IF isPinch THEN pinch ELSE NoGesture

staticResultPoseFirst(S, landmarks, handId, thumbIndexDistance, t) ==
  [S |-> S,
   gesture |-> poseBeforePinch(poseGesture(landmarks,
                                           isFingerExtendedImproved(landmarks, 1),
                                           isFingerExtendedImproved(landmarks, 2),
                                           isFingerExtendedImproved(landmarks, 3),
                                           isFingerExtendedImproved(landmarks, 4)),
                               S.isPinching[handId],
                               GestureRec("pinch", "none", pinchStrength(thumbIndexDistance),
                                          t - S.pinchStartTime[handId])),
   threw |-> FALSE]

\* what detectStaticGesture returns once the pinch state is updated
staticResult(S, landmarks, handId, thumbIndexDistance, t) ==
  [S |-> S,
   gesture |-> IF S.isPinching[handId]
               THEN GestureRec("pinch", "none", pinchStrength(thumbIndexDistance),
                               t - S.pinchStartTime[handId])
               ELSE poseGesture(landmarks,
                                isFingerExtendedImproved(landmarks, 1),
                                isFingerExtendedImproved(landmarks, 2),
                                isFingerExtendedImproved(landmarks, 3),
                                isFingerExtendedImproved(landmarks, 4)),
   threw |-> FALSE]

pinchStep(S, landmarks, handId, distSq, thumbIndexDistance, t) ==
  staticResult(updatePinch(initPinch(S, handId, thumbIndexDistance),
                           handId, distSq, thumbIndexDistance, t),
               landmarks, handId, thumbIndexDistance, t)

\* the result carries the new maps, the returned gesture and whether a
\* TypeError was raised (by the first finger classification, before any write)
detectStaticGesture(S, landmarks, handId, t) ==
  IF \E f \in 1..4 : fingerThrows(landmarks, f)
  THEN [S |-> S, gesture |-> NoGesture, threw |-> TRUE]
  ELSE pinchStep(S, landmarks, handId,
                 distance3DSquared(Lm(landmarks, 4), Lm(landmarks, 8)),
                 ISqrt(distance3DSquared(Lm(landmarks, 4), Lm(landmarks, 8))), t)

----------------------------------------------------------------------------
(* Listener fan-out *)

\* one listener call: callback(gesture, handedness, landmarks); handId is
\* recorded for the properties only, the listener does not receive it
Call(cb, gesture, handedness, hasLandmarks, handId) ==
  [cb |-> cb, gesture |-> gesture, handedness |-> handedness,
   landmarks |-> hasLandmarks, handId |-> handId]

\* notifyGesture calling the listeners last registered first
notifyGestureReversed(cbs, gesture, handedness, hasLandmarks, handId) ==
  [k \in 1..Len(cbs) |-> Call(cbs[Len(cbs) + 1 - k], gesture, handedness, hasLandmarks, handId)]

\* the calls notifyGesture makes, in order (none when there is no listener)
notifyGesture(cbs, gesture, handedness, hasLandmarks, handId) ==
  [k \in 1..Len(cbs) |-> Call(cbs[k], gesture, handedness, hasLandmarks, handId)]

----------------------------------------------------------------------------
(* Temporal detectors *)

Sample(wrist, t) == [x |-> wrist.x, y |-> wrist.y, time |-> t, nan |-> wrist.nan]

\* while (q.length > 0 && now - q[0].time > window) q.shift()
RECURSIVE trimOlder(_, _, _)
trimOlder(q, t, window) ==
  IF Len(q) > 0 /\ t - Head(q).time > window
  THEN trimOlder(Tail(q), t, window)
  ELSE q

Quiet(S) == [S |-> S, out |-> <<>>]

\* if (!this.wavePositions[handId]) { ... }
initWave(S, handId, t) ==
  IF handId \notin DOMAIN S.wavePositions
  THEN [S EXCEPT !.wavePositions = Put(@, handId, <<>>),
                 !.waveDirectionChanges = Put(@, handId, 0),
                 !.waveStartTime = Put(@, handId, t),
                 !.waveLastDirection = Put(@, handId, "null")]
  ELSE S

\* pushWave without the trimming loop
pushWaveNoTrim(S, wrist, handId, t) ==
  [S EXCEPT !.wavePositions = Put(@, handId, Append(@[handId], Sample(wrist, t)))]

\* push the sample, then drop the samples older than 2 seconds
pushWave(S, wrist, handId, t) ==
  [S EXCEPT !.wavePositions =
     Put(@, handId, trimOlder(Append(@[handId], Sample(wrist, t)), t, WAVE_WINDOW_MS))]

\* resetStaleWave leaving the reversal counter as it is
resetStaleWaveKeepsCount(S, handId, t) ==
  IF t - S.waveStartTime[handId] > WAVE_RESET_MS
  THEN [S EXCEPT !.waveStartTime = Put(@, handId, t),
                 !.waveLastDirection = Put(@, handId, "null")]
  ELSE S

\* if (now - this.waveStartTime[handId] > 3000) { ... }
resetStaleWave(S, handId, t) ==
  IF t - S.waveStartTime[handId] > WAVE_RESET_MS
  THEN [S EXCEPT !.waveDirectionChanges = Put(@, handId, 0),
                 !.waveStartTime = Put(@, handId, t),
                 !.waveLastDirection = Put(@, handId, "null")]
  ELSE S

\* current.x - previous.x, previous two positions back
waveDeltaX(positions) == positions[Len(positions)].x - positions[Len(positions) - 2].x

\* waveResult restarting the window at the time of the wave, without cooldown
waveResultNoCooldown(S, direction, changed, isWave, cbs, handId, handedness, t) ==
  [S |-> [(IF ~changed THEN S
           ELSE IF isWave
                THEN [S EXCEPT !.waveDirectionChanges = Put(@, handId, 0),
                               !.waveStartTime = Put(@, handId, t)]
                ELSE [S EXCEPT !.waveDirectionChanges = Put(@, handId, @[handId] + 1)])
          EXCEPT !.waveLastDirection = Put(@, handId, direction)],
   out |-> IF isWave
           THEN notifyGesture(cbs, Gesture("wave", "none"), handedness, FALSE, handId)
           ELSE <<>>]

\* the direction-change block and "Update last direction"
waveResult(S, direction, changed, isWave, cbs, handId, handedness, t) ==
  [S |-> [(IF ~changed THEN S
           ELSE IF isWave
                THEN [S EXCEPT !.waveDirectionChanges = Put(@, handId, 0),
                               !.waveStartTime = Put(@, handId, t + WAVE_COOLDOWN_MS)]
                ELSE [S EXCEPT !.waveDirectionChanges = Put(@, handId, @[handId] + 1)])
          EXCEPT !.waveLastDirection = Put(@, handId, direction)],
   out |-> IF isWave
           THEN notifyGesture(cbs, Gesture("wave", "none"), handedness, FALSE, handId)
           ELSE <<>>]

waveChanged(S, direction, handId) ==
  /\ S.waveLastDirection[handId] # "null"
  /\ S.waveLastDirection[handId] # direction

\* waveFires asking for a third reversal
waveFiresThree(S, direction, handId, t) ==
  /\ waveChanged(S, direction, handId)
  /\ S.waveDirectionChanges[handId] + 1 >= 3
  /\ t - S.waveStartTime[handId] < WAVE_WINDOW_MS

waveFires(S, direction, handId, t) ==
  /\ waveChanged(S, direction, handId)
  /\ S.waveDirectionChanges[handId] + 1 >= 2
  /\ t - S.waveStartTime[handId] < WAVE_WINDOW_MS

waveDirectionStep(S, direction, cbs, handId, handedness, t) ==
  waveResult(S, direction, waveChanged(S, direction, handId),
             waveFires(S, direction, handId, t), cbs, handId, handedness, t)

\* waveAfterReset without the test on the size of the movement
waveAfterResetNoFilter(S, deltaX, cbs, handId, handedness, t) ==
  waveDirectionStep(S, IF deltaX > 0 THEN "right" ELSE "left",
                    cbs, handId, handedness, t)

waveAfterReset(S, deltaX, cbs, handId, handedness, t) ==
  IF Abs(deltaX) < WAVE_MIN_DELTA THEN Quiet(S)
  ELSE waveDirectionStep(S, IF deltaX > 0 THEN "right" ELSE "left",
                         cbs, handId, handedness, t)

\* deltaX is NaN: Math.abs(deltaX) < 0.03 is false and deltaX > 0 is false
waveDeltaIsNaN(positions) ==
  positions[Len(positions)].nan \/ positions[Len(positions) - 2].nan

waveAfterPush(S, cbs, handId, handedness, t) ==
  IF Len(S.wavePositions[handId]) < 3 THEN Quiet(S)
  ELSE IF waveDeltaIsNaN(S.wavePositions[handId])
       THEN waveDirectionStep(resetStaleWave(S, handId, t), "left",
                              cbs, handId, handedness, t)
       ELSE waveAfterReset(resetStaleWave(S, handId, t), waveDeltaX(S.wavePositions[handId]),
                           cbs, handId, handedness, t)

\* result: the new maps and the listener calls made
detectWaveGesture(S, cbs, wrist, handId, handedness, t) ==
  waveAfterPush(pushWave(initWave(S, handId, t), wrist, handId, t),
                cbs, handId, handedness, t)

\* swipeDirection calling a swipe with |deltaX| = |deltaY| horizontal
swipeDirectionTieHorizontal(deltaX, deltaY) ==
  IF Abs(deltaX) >= Abs(deltaY)
  THEN (IF deltaX > 0 THEN "right" ELSE "left")
  ELSE (IF deltaY > 0 THEN "down" ELSE "up")

\* the direction of a swipe with displacement (deltaX, deltaY)
swipeDirection(deltaX, deltaY) ==
  IF Abs(deltaX) > Abs(deltaY)
  THEN (IF deltaX > 0 THEN "right" ELSE "left")
  ELSE (IF deltaY > 0 THEN "down" ELSE "up")

\* with deltaX = NaN, absDeltaX > absDeltaY is false: the swipe is vertical
swipeDirectionOf(first, last) ==
  IF finite(first, last) THEN swipeDirection(last.x - first.x, last.y - first.y)
  ELSE IF last.y - first.y > 0 THEN "down" ELSE "up"

\* |delta / timeDiff| > VELOCITY_THRESHOLD (0.5 units per second), with
\* delta in hundredths and elapsed = last.time - first.time in ms
velocityAbove(delta, elapsed) == 20 * Abs(delta) > elapsed

\* isSwipe asking for the displacement on both axes
isSwipeBothAxes(first, last) ==
  /\ ((finite(first, last) /\ Abs(last.x - first.x) > SWIPE_THRESHOLD)
        /\ Abs(last.y - first.y) > SWIPE_THRESHOLD)
  /\ (\/ (finite(first, last) /\ velocityAbove(last.x - first.x, last.time - first.time))
      \/ velocityAbove(last.y - first.y, last.time - first.time))

\* isSwipe accepting a displacement of exactly 0.15
isSwipeAtLeast(first, last) ==
  /\ ((finite(first, last) /\ Abs(last.x - first.x) >= SWIPE_THRESHOLD)
        \/ Abs(last.y - first.y) >= SWIPE_THRESHOLD)
  /\ (\/ (finite(first, last) /\ velocityAbove(last.x - first.x, last.time - first.time))
      \/ velocityAbove(last.y - first.y, last.time - first.time))

isSwipe(first, last) ==
  /\ ((finite(first, last) /\ Abs(last.x - first.x) > SWIPE_THRESHOLD)
        \/ Abs(last.y - first.y) > SWIPE_THRESHOLD)
  /\ (\/ (finite(first, last) /\ velocityAbove(last.x - first.x, last.time - first.time))
      \/ velocityAbove(last.y - first.y, last.time - first.time))

\* if (!this.swipePositions[handId]) { ... }
initSwipe(S, handId, t) ==
  IF handId \notin DOMAIN S.swipePositions
  THEN [S EXCEPT !.swipePositions = Put(@, handId, <<>>),
                 !.swipeStartTime = Put(@, handId, t),
                 !.lastSwipeTime = Put(@, handId, 0)]
  ELSE S

\* push the sample, then drop the samples older than half a second
pushSwipe(S, wrist, handId, t) ==
  [S EXCEPT !.swipePositions =
     Put(@, handId, trimOlder(Append(@[handId], Sample(wrist, t)), t, SWIPE_WINDOW_MS))]

\* swipeFire recording the swipe as the hand's last surfaced gesture
swipeFireRecorded(S, first, last, cbs, handId, handedness, t) ==
  [S |-> [S EXCEPT !.lastSwipeTime = Put(@, handId, t),
                   !.swipePositions = Put(@, handId, <<>>),
                   !.swipeStartTime = Put(@, handId, t),
                   !.lastGesture = Put(@, handId, "swipe"),
                   !.lastGestureTime = Put(@, handId, t)],
   out |-> notifyGesture(cbs, Gesture("swipe", swipeDirectionOf(first, last)),
                         handedness, FALSE, handId)]

\* the block run when the movement is a swipe
swipeFire(S, first, last, cbs, handId, handedness, t) ==
  [S |-> [S EXCEPT !.lastSwipeTime = Put(@, handId, t),
                   !.swipePositions = Put(@, handId, <<>>),
                   !.swipeStartTime = Put(@, handId, t)],
   out |-> notifyGesture(cbs, Gesture("swipe", swipeDirectionOf(first, last)),
                         handedness, FALSE, handId)]

swipeAfterPush(S, positions, cbs, handId, handedness, t) ==
  IF Len(positions) < SWIPE_MIN_SAMPLES THEN Quiet(S)
  ELSE IF isSwipe(positions[1], positions[Len(positions)])
       THEN swipeFire(S, positions[1], positions[Len(positions)], cbs, handId, handedness, t)
       ELSE Quiet(S)

\* inRefractory with the period cut to 50ms
inRefractoryShort(S, handId, t) == t - S.lastSwipeTime[handId] < 50

\* if (now - this.lastSwipeTime[handId] < 1000) return;
inRefractory(S, handId, t) == t - S.lastSwipeTime[handId] < SWIPE_REFRACTORY_MS

\* swipeAfterInit buffering the sample of a frame of the refractory period
swipeAfterInitBuffers(S, cbs, wrist, handId, handedness, t) ==
  IF inRefractory(S, handId, t) THEN Quiet(pushSwipe(S, wrist, handId, t))
  ELSE swipeAfterPush(pushSwipe(S, wrist, handId, t),
                      pushSwipe(S, wrist, handId, t).swipePositions[handId],
                      cbs, handId, handedness, t)

swipeAfterInit(S, cbs, wrist, handId, handedness, t) ==
  IF inRefractory(S, handId, t) THEN Quiet(S)
  ELSE swipeAfterPush(pushSwipe(S, wrist, handId, t),
                      pushSwipe(S, wrist, handId, t).swipePositions[handId],
                      cbs, handId, handedness, t)

detectSwipeGesture(S, cbs, wrist, handId, handedness, t) ==
  swipeAfterInit(initSwipe(S, handId, t), cbs, wrist, handId, handedness, t)

----------------------------------------------------------------------------
(* Dispatch / debounce: handleResults *)

\* `${handedness}_${handIndex}`
HandId(handedness, handIndex) == <<handedness, handIndex>>

\* shouldReport comparing with >= instead of >
shouldReportAtLeast(S, handId, name, t) ==
  \/ handId \notin DOMAIN S.lastGesture
  \/ S.lastGesture[handId] # name
  \/ t - S.lastGestureTime[handId] >= DEBOUNCE_MS

\* shouldReport with the debounce interval cut to 200ms
shouldReportShort(S, handId, name, t) ==
  \/ handId \notin DOMAIN S.lastGesture
  \/ S.lastGesture[handId] # name
  \/ t - S.lastGestureTime[handId] > 200

\* lastGesture[handId] !== name || Date.now() - lastGestureTime[handId] > 500
shouldReport(S, handId, name, t) ==
  \/ handId \notin DOMAIN S.lastGesture
  \/ S.lastGesture[handId] # name
  \/ t - S.lastGestureTime[handId] > DEBOUNCE_MS

\* dispatch recording every static candidate, surfaced or not
dispatchStampsCandidate(S, out, staticGesture, report, cbs, handedness, handId, t) ==
  [S |-> IF staticGesture # NoGesture
         THEN [S EXCEPT !.lastGesture = Put(@, handId, staticGesture.name),
                        !.lastGestureTime = Put(@, handId, t)]
         ELSE S,
   out |-> IF report
           THEN out \o notifyGesture(cbs, staticGesture, handedness, TRUE, handId)
           ELSE out,
   cand |-> <<[handId |-> handId, gesture |-> staticGesture]>>,
   threw |-> FALSE]

\* the report block at the end of the forEach body
dispatch(S, out, staticGesture, report, cbs, handedness, handId, t) ==
  [S |-> IF report
         THEN [S EXCEPT !.lastGesture = Put(@, handId, staticGesture.name),
                        !.lastGestureTime = Put(@, handId, t)]
         ELSE S,
   out |-> IF report
           THEN out \o notifyGesture(cbs, staticGesture, handedness, TRUE, handId)
           ELSE out,
   cand |-> <<[handId |-> handId, gesture |-> staticGesture]>>,
   threw |-> FALSE]

\* afterSwipe with the swipe notification placed before the wave notification
afterSwipeSwipeFirst(staticGesture, waveOut, sw, cbs, handedness, handId, t) ==
  dispatch(sw.S, sw.out \o waveOut, staticGesture,
           staticGesture # NoGesture /\ shouldReport(sw.S, handId, staticGesture.name, t),
           cbs, handedness, handId, t)

afterSwipe(staticGesture, waveOut, sw, cbs, handedness, handId, t) ==
  dispatch(sw.S, waveOut \o sw.out, staticGesture,
           staticGesture # NoGesture /\ shouldReport(sw.S, handId, staticGesture.name, t),
           cbs, handedness, handId, t)

afterWave(staticGesture, wv, cbs, wrist, handedness, handId, t) ==
  afterSwipe(staticGesture, wv.out,
             detectSwipeGesture(wv.S, cbs, wrist, handId, handedness, t),
             cbs, handedness, handId, t)

afterStatic(st, cbs, wrist, handedness, handId, t) ==
  IF st.threw THEN [S |-> st.S, out |-> <<>>, cand |-> <<>>, threw |-> TRUE]
  ELSE afterWave(st.gesture,
                 detectWaveGesture(st.S, cbs, wrist, handId, handedness, t),
                 cbs, wrist, handedness, handId, t)

\* the body of multiHandLandmarks.forEach for one hand; landmarks[0] is read
\* only after detectStaticGesture returned
processHand(S, cbs, hand, handIndex, t) ==
  afterStatic(detectStaticGesture(S, hand.landmarks, HandId(hand.label, handIndex), t),
              cbs, hand.landmarks[1], hand.label, HandId(hand.label, handIndex), t)

joinHands(r, rest) ==
  [S |-> rest.S, out |-> r.out \o rest.out, cand |-> r.cand \o rest.cand,
   threw |-> rest.threw]

\* forEach over the hands from slot handIndex on; an exception ends the loop
RECURSIVE forEachHand(_, _, _, _, _)
afterHand(r, cbs, hands, handIndex, t) ==
  IF r.threw THEN r
  ELSE joinHands(r, forEachHand(r.S, cbs, hands, handIndex + 1, t))

forEachHand(S, cbs, hands, handIndex, t) ==
  IF handIndex >= Len(hands) THEN [S |-> S, out |-> <<>>, cand |-> <<>>, threw |-> FALSE]
  ELSE afterHand(processHand(S, cbs, hands[handIndex + 1], handIndex, t),
                 cbs, hands, handIndex, t)

\* the per-hand maps as one record
Maps ==
  [lastGesture |-> lastGesture, lastGestureTime |-> lastGestureTime,
   wavePositions |-> wavePositions, waveDirectionChanges |-> waveDirectionChanges,
   waveStartTime |-> waveStartTime, waveLastDirection |-> waveLastDirection,
   lastPinchDistance |-> lastPinchDistance, isPinching |-> isPinching,
   pinchStartTime |-> pinchStartTime, swipePositions |-> swipePositions,
   swipeStartTime |-> swipeStartTime, lastSwipeTime |-> lastSwipeTime]

\* this.lastGesture = {}; ... this.lastSwipeTime = {};
EmptyMaps ==
  [lastGesture |-> EmptyMap, lastGestureTime |-> EmptyMap,
   wavePositions |-> EmptyMap, waveDirectionChanges |-> EmptyMap,
   waveStartTime |-> EmptyMap, waveLastDirection |-> EmptyMap,
   lastPinchDistance |-> EmptyMap, isPinching |-> EmptyMap,
   pinchStartTime |-> EmptyMap, swipePositions |-> EmptyMap,
   swipeStartTime |-> EmptyMap, lastSwipeTime |-> EmptyMap]

SetMaps(S) ==
  /\ lastGesture' = S.lastGesture /\ lastGestureTime' = S.lastGestureTime
  /\ wavePositions' = S.wavePositions
  /\ waveDirectionChanges' = S.waveDirectionChanges
  /\ waveStartTime' = S.waveStartTime /\ waveLastDirection' = S.waveLastDirection
  /\ lastPinchDistance' = S.lastPinchDistance /\ isPinching' = S.isPinching
  /\ pinchStartTime' = S.pinchStartTime /\ swipePositions' = S.swipePositions
  /\ swipeStartTime' = S.swipeStartTime /\ lastSwipeTime' = S.lastSwipeTime

\* handleResultsAt running the detectors whether or not a listener is registered
handleResultsAtUnlistened(S, cbs, results, t) ==
  IF Len(results) > 0
  THEN forEachHand(S, cbs, results, 0, t)
  ELSE [S |-> S, out |-> <<>>, cand |-> <<>>, threw |-> FALSE]

\* the result of handleResults(results) run at Date.now() = t
handleResultsAt(S, cbs, results, t) ==
  IF Len(cbs) > 0 /\ Len(results) > 0
  THEN forEachHand(S, cbs, results, 0, t)
  ELSE [S |-> S, out |-> <<>>, cand |-> <<>>, threw |-> FALSE]

\* per hand, the name and time of the last gesture in `names` delivered and
\* the number n of such gestures delivered so far (calls to the first listener)
Logged(log, c, t) ==
  [name |-> c.gesture.name, time |-> t,
   n |-> IF c.handId \in DOMAIN log THEN log[c.handId].n + 1 ELSE 1]

RECURSIVE logCalls(_, _, _, _, _)
logCalls(log, calls, names, first, t) ==
  IF calls = <<>> THEN log
  ELSE logCalls(IF Head(calls).gesture.name \in names /\ Head(calls).cb = first
                THEN Put(log, Head(calls).handId, Logged(log, Head(calls), t))
                ELSE log,
                Tail(calls), names, first, t)

\* waveDirectionChanges[handId]++ taking the counter of a hand to 1 is logged
\* with its time; the entry goes when the counter is set to 0
logReversals(log, before, after, t) ==
  [id \in {x \in DOMAIN after : after[x] = 1} |->
     IF id \in DOMAIN before /\ before[id] = 1 /\ id \in DOMAIN log THEN log[id] ELSE t]

FirstListener == IF gestureCallbacks = <<>> THEN 0 ELSE gestureCallbacks[1]

StaticNames == {"point", "open", "grab", "pinch"}

----------------------------------------------------------------------------
(* Frames.  A frame is described per hand by the wrist position, the pose  *)
(* of the four fingers, the offset of the index tip from the wrist when    *)
(* pointing, the thumb-tip to index-tip distance and the number of         *)
(* landmarks delivered; Landmarks builds the landmark array from it.       *)

Hand(label, wx, wy, pose, v, d, n) ==
  [label |-> label, wx |-> wx, wy |-> wy, pose |-> pose, v |-> v, d |-> d, n |-> n,
   nan |-> FALSE]

\* the same hand with wrist.x = NaN
NaNWrist(h) == [h EXCEPT !.nan = TRUE]

FingerX(f) == CASE f = 1 -> -3 [] f = 2 -> -1 [] f = 3 -> 1 [] OTHER -> 3

Off(h, x, y, z) == Pt(h.wx + x, h.wy + y, z)

\* joint j (1 = MCP, 2 = PIP, 3 = DIP, 4 = tip) of finger f (1..4).  Poses:
\* "ext" straight and long, "short" straight with the tip at 1.3 times the
\* MCP distance, "curl" folded back, "bent" folded with the tip beside the
\* tip of a short neighbour, "hook" folded at the DIP with the tip far out,
\* "point" straight joints with the tip at wrist + v
Joint(h, f, j) ==
  LET p == h.pose[f]
  IN  CASE j = 1 -> Off(h, FingerX(f), -10, 0)
        [] j = 2 -> IF p = "short" THEN Off(h, FingerX(f), -11, 0)
                    ELSE Off(h, FingerX(f), -13, 0)
        [] j = 3 -> IF p \in {"curl", "bent", "hook"} THEN Off(h, FingerX(f), -12, 2)
                    ELSE IF p = "short" THEN Off(h, FingerX(f), -12, 0)
                    ELSE Off(h, FingerX(f), -16, 0)
        [] OTHER -> IF p = "curl" THEN Off(h, FingerX(f), -9, 2)
                    ELSE IF p = "bent" THEN Off(h, FingerX(f) + 1, -11, 0)
                    ELSE IF p = "short" THEN Off(h, FingerX(f), -13, 0)
                    ELSE IF p = "point" THEN Off(h, h.v.x, h.v.y, h.v.z)
                    ELSE Off(h, FingerX(f), -19, 0)

LandmarkAt(h, i) ==
  CASE i = 0 -> [Off(h, 0, 0, 0) EXCEPT !.nan = h.nan]
    [] i = 1 -> Off(h, -5, -3, 0)
    [] i = 2 -> Off(h, -7, -6, 0)
    [] i = 3 -> Off(h, -8, -8, 0)
    [] i = 4 -> Pt(Joint(h, 1, 4).x + h.d, Joint(h, 1, 4).y, Joint(h, 1, 4).z)
    [] OTHER -> Joint(h, (i - 1) \div 4, ((i - 1) % 4) + 1)

Landmarks(h) == [k \in 1..h.n |-> LandmarkAt(h, k - 1)]

\* results.multiHandLandmarks zipped with results.multiHandedness
Results(frame) ==
  [k \in 1..Len(frame) |-> [label |-> frame[k].label, landmarks |-> Landmarks(frame[k])]]

\* the writes of one handleResults call with result r
Commit(r, frame, t) ==
  /\ now' = t
  /\ SetMaps(r.S)
  /\ delivered' = r.out
  /\ candidates' = r.cand
  /\ threw' = r.threw
  /\ lastFrame' = frame
  /\ fed' = fed + 1
  /\ waveLog' = logCalls(waveLog, r.out, {"wave"}, FirstListener, t)
  /\ swipeLog' = logCalls(swipeLog, r.out, {"swipe"}, FirstListener, t)
  /\ staticLog' = logCalls(staticLog, r.out, StaticNames, FirstListener, t)
  /\ reversalLog' = logReversals(reversalLog, waveDirectionChanges,
                                 r.S.waveDirectionChanges, t)
  /\ handUpdates' = Len(handUpdateCallbacks)
  /\ UNCHANGED <<isTracking, gestureCallbacks, handUpdateCallbacks>>

\* handleResults(results) called when the clock reads t
HandleResults(frame, t) ==
  Commit(handleResultsAt(Maps, gestureCallbacks, Results(frame), t), frame, t)

----------------------------------------------------------------------------
(* Operations *)

Listeners == 1..MaxListeners

InRange(q, x) == \E k \in 1..Len(q) : q[k] = x

\* array.filter(cb => cb !== callback)
RECURSIVE without(_, _)
without(q, x) ==
  IF q = <<>> THEN <<>>
  ELSE IF Head(q) = x THEN without(Tail(q), x)
       ELSE <<Head(q)>> \o without(Tail(q), x)

ResetLogs ==
  /\ waveLog' = EmptyMap /\ swipeLog' = EmptyMap /\ staticLog' = EmptyMap
  /\ reversalLog' = EmptyMap

\* this.gestureCallbacks.push(callback): the same function can be registered
\* more than once; cap bounds the length of the list
register(cb, cap) ==
  /\ Len(gestureCallbacks) < cap
  /\ gestureCallbacks' = Append(gestureCallbacks, cb)
  /\ UNCHANGED <<now, isTracking, handUpdateCallbacks, handState, ghost, pending,
                 scenario, manager, loops>>

\* onGestureDetected called with a listener that is not registered yet
onGestureDetected(cb) ==
  /\ ~InRange(gestureCallbacks, cb)
  /\ register(cb, MaxListeners)

unsubscribe(cb) ==
  /\ InRange(gestureCallbacks, cb)
  /\ gestureCallbacks' = without(gestureCallbacks, cb)
  /\ UNCHANGED <<now, isTracking, handUpdateCallbacks, handState, ghost, pending,
                 scenario, manager, loops>>

\* this.isTracking = true; ...; this.lastSwipeTime = {};
trackingStarted ==
  /\ isTracking' = TRUE
  /\ SetMaps(EmptyMaps)
  /\ ResetLogs
  /\ UNCHANGED <<now, gestureCallbacks, handUpdateCallbacks, delivered, candidates, threw,
                 lastFrame, fed, handUpdates, pending, scenario, manager>>

\* startTracking from the initialised provider with a video element and a
\* granted camera: isTracking = true, first frame sent, maps reset
startTracking ==
  /\ ~isTracking
  /\ trackingStarted
  /\ UNCHANGED loops

\* stopTracking without the reset of the per-hand maps
stopTrackingKeepsState ==
  /\ isTracking
  /\ isTracking' = FALSE
  /\ UNCHANGED <<now, gestureCallbacks, handUpdateCallbacks, handState, ghost, pending,
                 scenario, manager, loops>>

stopTracking ==
  /\ isTracking
  /\ isTracking' = FALSE
  /\ SetMaps(EmptyMaps)
  /\ ResetLogs
  /\ UNCHANGED <<now, gestureCallbacks, handUpdateCallbacks, delivered, candidates, threw,
                 lastFrame, fed, handUpdates, pending, scenario, manager, loops>>

\* startTracking up to its first await (getUserMedia); a call made while
\* tracking returns at once
startTrackingCalled ==
  /\ ~isTracking
  /\ starting < MaxStarts
  /\ starting' = starting + 1
  /\ UNCHANGED <<now, isTracking, gestureCallbacks, handUpdateCallbacks, handState, ghost,
                 pending, scenario, manager, sending, scheduled>>

\* the rest of startTracking once the camera is granted and the video is
\* ready: isTracking = true, processFrame() sends the first frame, maps reset
startTrackingResumed ==
  /\ starting > 0
  /\ sending + scheduled < MaxLoops
  /\ starting' = starting - 1
  /\ sending' = sending + 1
  /\ trackingStarted
  /\ UNCHANGED scheduled

\* processFrame run by requestAnimationFrame: return when not tracking,
\* hands.send otherwise
processFrame ==
  /\ scheduled > 0
  /\ scheduled' = scheduled - 1
  /\ sending' = IF isTracking THEN sending + 1 ELSE sending
  /\ UNCHANGED <<now, isTracking, gestureCallbacks, handUpdateCallbacks, handState, ghost,
                 pending, scenario, manager, starting>>

\* the tracker delivers the results of a frame sent earlier: handleResults,
\* then the wait of processFrame ends and requestAnimationFrame queues it
onResults(Frames, Dts, maxFrames) ==
  /\ sending > 0
  /\ fed < maxFrames
  /\ \E frame \in Frames, dt \in Dts : HandleResults(frame, now + dt)
  /\ sending' = sending - 1
  /\ scheduled' = scheduled + 1
  /\ UNCHANGED <<starting, pending, scenario, manager>>

\* one turn of the processFrame loop: hands.send, then onResults
FrameStep(Frames, Dts, maxFrames) ==
  /\ isTracking
  /\ fed < maxFrames
  /\ \E frame \in Frames, dt \in Dts : HandleResults(frame, now + dt)
  /\ UNCHANGED <<pending, scenario, manager, loops>>

\* the next frame of a scripted run
FeedNext ==
  /\ isTracking
  /\ pending # <<>>
  /\ HandleResults(Head(pending).frame, now + Head(pending).dt)
  /\ pending' = Tail(pending)
  /\ UNCHANGED <<scenario, manager, loops>>

----------------------------------------------------------------------------
(* Input manager: state *)

ReadyCallbacks == 1..MaxReady

\* the ready callbacks that raise an exception when invoked
Throwing == {2}

Waiting(name, at) == [name |-> name, at |-> at]

\* a manager constructed with 'mediapipe' whose provider has initialised,
\* no ready callback passed
managerLoaded ==
  /\ provider = "mediapipe" /\ providerInitialized = TRUE
  /\ isInitialized = TRUE
  /\ onReadyCallbacks = <<>>
  /\ load = Waiting("mediapipe", "done")
  /\ attempts = <<"mediapipe">>
  /\ passed = {}
  /\ readyCalls = [cb \in ReadyCallbacks |-> 0]
  /\ managerCalls = 0 /\ forwarded = <<>> /\ thrown = FALSE

----------------------------------------------------------------------------
(* Initial states *)

InitCommon ==
  /\ now = T0
  /\ lastGesture = EmptyMap /\ lastGestureTime = EmptyMap
  /\ wavePositions = EmptyMap /\ waveDirectionChanges = EmptyMap
  /\ waveStartTime = EmptyMap /\ waveLastDirection = EmptyMap
  /\ lastPinchDistance = EmptyMap /\ isPinching = EmptyMap
  /\ pinchStartTime = EmptyMap /\ swipePositions = EmptyMap
  /\ swipeStartTime = EmptyMap /\ lastSwipeTime = EmptyMap
  /\ delivered = <<>> /\ candidates = <<>> /\ threw = FALSE
  /\ lastFrame = <<>> /\ fed = 0
  /\ waveLog = EmptyMap /\ swipeLog = EmptyMap /\ staticLog = EmptyMap
  /\ reversalLog = EmptyMap
  /\ handUpdates = 0
  /\ starting = 0 /\ sending = 0 /\ scheduled = 0

\* after construction
Init ==
  /\ InitCommon
  /\ managerLoaded
  /\ isTracking = FALSE
  /\ gestureCallbacks = <<>> /\ handUpdateCallbacks = <<>>
  /\ pending = <<>> /\ scenario = "free"

\* after onGestureDetected(1) and startTracking()
InitTracking ==
  /\ InitCommon
  /\ managerLoaded
  /\ isTracking = TRUE
  /\ gestureCallbacks = <<1>> /\ handUpdateCallbacks = <<>>
  /\ pending = <<>> /\ scenario = "free"

----------------------------------------------------------------------------
(* Inputs *)

W0 == 50                                   \* a wrist coordinate, mid-frame

Ext4   == <<"ext", "ext", "ext", "ext">>
Curl4  == <<"curl", "curl", "curl", "curl">>
Point4 == <<"point", "curl", "curl", "curl">>
Mixed4 == <<"ext", "ext", "curl", "curl">>

Zero == Pt(0, 0, 0)

\* frames of the dispatch specification: one right hand, wrist at rest
DispatchFrames ==
  { <<Hand("Right", W0, W0, pose, Pt(20, 0, 0), 10, 21)>> :
       pose \in {Ext4, Curl4, Point4, Mixed4} }
    \cup { <<Hand("Right", W0, W0, Ext4, Zero, 4, 21)>>,
           <<Hand("Right", W0, W0, Ext4, Zero, 10, 20)>> }

DispatchDts == {250, 500, 501}

\* frames of the pose specification: every extended/curled combination at
\* six thumb distances, a bent index beside a short middle finger, and the pointing pose over a grid of directions
PoseNames == {"ext", "curl"}

PoseFrames ==
  { <<Hand("Right", W0, W0, <<p1, p2, p3, p4>>, Zero, d, 21)>> :
       p1 \in PoseNames, p2 \in PoseNames, p3 \in PoseNames, p4 \in PoseNames,
       d \in {4, 5, 6, 7, 8, 10} }
    \cup { <<Hand("Right", W0, W0, <<"bent", "short", p3, p4>>, Zero, 10, 21)>> :
             p3 \in PoseNames, p4 \in PoseNames }
    \cup { <<Hand("Right", W0, W0, Point4, Pt(dx, dy, dz), 10, 21)>> :
             dx \in {-20, -4, 0, 3, 4, 20}, dy \in {-20, -4, 0, 3, 4, 20},
             dz \in {-20, -6, 0, 5, 6, 10} }

PoseDts == {100}

\* frames of the swipe and wave specifications: the wrist moves, the hand
\* stays open
Moving(label, wx, wy) == <<Hand(label, wx, wy, Ext4, Zero, 10, 21)>>

SwipeFrames == { Moving("Right", wx, W0) : wx \in {40, 60} }

SwipeDts == {75, 1000}

WaveFrames == { Moving("Right", wx, W0) : wx \in {50, 60} }

WaveDts == {100, 1100}

----------------------------------------------------------------------------
(* Scripted runs: the sequences of frames the testable properties name *)

Step(dt, frame) == [dt |-> dt, frame |-> frame]

Labels == {"Left", "Right"}

\* thumb-index distances 0.1, 0.04, 0.06, 0.08 on consecutive frames
PinchDistances == <<10, 4, 6, 8>>

PinchScript(label, pose, dt) ==
  [k \in 1..4 |-> Step(dt, <<Hand(label, W0, W0, pose, Pt(20, 0, 0), PinchDistances[k], 21)>>)]

PinchScripts ==
  { PinchScript(label, pose, dt) :
       label \in Labels, pose \in {Ext4, Curl4, Point4, Mixed4}, dt \in {16, 100, 600} }

\* five wrist samples spanning 300ms from (x0, 50) to (x0 + 20, 51); mid gives
\* the x offsets of the three samples in between, gaps the four intervals
SwipeScript(label, x0, mid, gaps) ==
  [k \in 1..5 |->
     Step(IF k = 1 THEN 16 ELSE gaps[k - 1],
          Moving(label,
                 x0 + (IF k = 1 THEN 0 ELSE IF k = 5 THEN 20 ELSE mid[k - 1]),
                 IF k = 5 THEN W0 + 1 ELSE W0))]

SwipeScripts ==
  { SwipeScript(label, x0, mid, gaps) :
       label \in Labels, x0 \in {30, 50},
       mid \in {<<5, 10, 15>>, <<0, 0, 0>>, <<20, 20, 20>>, <<30, -10, 10>>},
       gaps \in {<<75, 75, 75, 75>>, <<100, 100, 50, 50>>, <<10, 10, 10, 270>>,
                 <<300, 0, 0, 0>>} }

\* wrist x oscillating 0.5, 0.6, 0.5, 0.6, each position held for `hold`
\* samples, dt apart
HoldScript(label, hold, dt) ==
  [k \in 1..(4 * hold) |->
     Step(dt, Moving(label, IF ((k - 1) \div hold) % 2 = 0 THEN 50 ELSE 60, W0))]

\* the same oscillation with the wrist passing through intermediate positions
RampX == <<50, 53, 57, 60, 57, 53, 50, 53, 57, 60>>

RampScript(label, dt) == [k \in 1..10 |-> Step(dt, Moving(label, RampX[k], W0))]

WaveScripts ==
  { HoldScript(label, 3, dt) : label \in Labels, dt \in {16, 100, 125} }
    \cup { HoldScript(label, 4, dt) : label \in Labels, dt \in {16, 100} }
    \cup { RampScript(label, dt) : label \in Labels, dt \in {16, 100, 160} }

Scripts(name) ==
  CASE name = "pinch" -> PinchScripts
    [] name = "swipe" -> SwipeScripts
    [] OTHER -> WaveScripts

\* after onGestureDetected(1) and startTracking(), a script chosen
InitScript ==
  /\ InitCommon
  /\ managerLoaded
  /\ isTracking = TRUE
  /\ gestureCallbacks = <<1>> /\ handUpdateCallbacks = <<>>
  /\ scenario \in {"pinch", "swipe", "wave"}
  /\ pending \in Scripts(scenario)

----------------------------------------------------------------------------
(* Specifications *)

Next ==
  \/ \E cb \in Listeners : onGestureDetected(cb)
  \/ \E cb \in Listeners : unsubscribe(cb)
  \/ startTracking
  \/ stopTracking
  \/ FrameStep(DispatchFrames, DispatchDts, MaxFrames)

Spec == Init /\ [][Next]_vars

NextPose == FrameStep(PoseFrames, PoseDts, MaxPoseFrames)

SpecPose == InitTracking /\ [][NextPose]_vars

NextSwipe == FrameStep(SwipeFrames, SwipeDts, MaxSwipeFrames)

SpecSwipe == InitTracking /\ [][NextSwipe]_vars

NextWave == FrameStep(WaveFrames, WaveDts, MaxWaveFrames)

SpecWave == InitTracking /\ [][NextWave]_vars

NextScript == FeedNext

SpecScript == InitScript /\ [][NextScript]_vars


----------------------------------------------------------------------------
(* Properties: shared vocabulary *)

\* this step is a handleResults call
IsFrameStep == fed' = fed + 1

\* the listener calls of `calls` that carry a static gesture for hand id
StaticCalls(calls, id) ==
  {k \in 1..Len(calls) : calls[k].handId = id /\ calls[k].gesture.name \in StaticNames}

CallsNamed(calls, id, name) ==
  {k \in 1..Len(calls) : calls[k].handId = id /\ calls[k].gesture.name = name}

\* indexTip - wrist of a described hand
PointVector(h) == vectorBetween(Lm(Landmarks(h), 0), Lm(Landmarks(h), 8))

\* all four non-thumb fingers of a described hand are classified extended
AllExtended(h) == \A f \in 1..4 : isFingerExtendedImproved(Landmarks(h), f)

\* the hand identities of a frame
FrameIds(frame) == {HandId(frame[k].label, k - 1) : k \in 1..Len(frame)}

----------------------------------------------------------------------------
(* C2: for each hand, two consecutive surfaced static gestures with the    *)
(* same name are at least 500ms apart; the same frame fed again less than  *)
(* 500ms after it was surfaced, with the name unchanged, delivers nothing  *)
(* static.                                                                 *)
C2_DebounceSuppression ==
  [][IsFrameStep =>
       /\ \A k \in 1..Len(delivered') :
            LET c == delivered'[k]
            IN  (/\ c.gesture.name \in StaticNames
                 /\ c.handId \in DOMAIN staticLog
                 /\ staticLog[c.handId].name = c.gesture.name)
                => now' - staticLog[c.handId].time >= 500
       /\ (/\ lastFrame' = lastFrame
           /\ now' - now < 500
           /\ \A k \in 1..Len(candidates') :
                /\ candidates'[k].handId \in DOMAIN staticLog
                /\ staticLog[candidates'[k].handId].time = now
                /\ staticLog[candidates'[k].handId].name = candidates'[k].gesture.name)
          => \A id \in FrameIds(lastFrame') : StaticCalls(delivered', id) = {}]_vars

\* a static candidate was suppressed less than 500ms after its name surfaced
C2_Witness ==
  /\ gestureCallbacks # <<>>
  /\ delivered = <<>>
  /\ \E k \in 1..Len(candidates) :
       /\ candidates[k].gesture.name \in StaticNames
       /\ candidates[k].handId \in DOMAIN staticLog
       /\ staticLog[candidates[k].handId].name = candidates[k].gesture.name
       /\ staticLog[candidates[k].handId].time < now
       /\ now - staticLog[candidates[k].handId].time < 500

----------------------------------------------------------------------------
(* C10: a frame whose landmark array has 20 entries raises no exception.   *)
(* The code reads landmarks[20] for the pinky tip and raises a TypeError.  *)
C10_ShortFrameRejected ==
  (lastFrame # <<>> /\ \E k \in 1..Len(lastFrame) : lastFrame[k].n = 20) => ~threw


----------------------------------------------------------------------------
(* C8: a frame in which all four non-thumb fingers are classified extended *)
(* is classified open, never point, grab or pinch.  As stated it fails:    *)
(* a pinching hand is classified pinch whatever the fingers are.           *)
C8_AllExtendedIsOpen ==
  \A k \in 1..Len(candidates) :
    AllExtended(lastFrame[k]) => candidates[k].gesture.name = "open"

(* C8 as amended: all four extended and the hand not pinching after the    *)
(* hysteresis update gives open.                                           *)
C8_AllExtendedNotPinchingIsOpen ==
  \A k \in 1..Len(candidates) :
    (AllExtended(lastFrame[k]) /\ ~isPinching[candidates[k].handId])
      => candidates[k].gesture = Gesture("open", "none")

C8_Witness ==
  \E k \in 1..Len(candidates) :
    /\ AllExtended(lastFrame[k])
    /\ ~isPinching[candidates[k].handId]
    /\ candidates[k].gesture.name = "open"

----------------------------------------------------------------------------
(* C9: the direction of a point gesture is forward/backward (dz < 0 /      *)
(* dz > 0) when |dz| > 0.05, |dz| > 0.5|dx| and |dz| > 0.5|dy|; otherwise  *)
(* the diagonal given by the signs of dx and dy when |dx| > 0.03 and       *)
(* |dy| > 0.03; otherwise the cardinal direction of the larger of |dx|,    *)
(* |dy|; (0,0,-0.2) is forward, (0.2,0.2,0) bottom-right, (0.2,0,0) right. *)
C9_DepthRule(v) == Abs(v.z) > 5 /\ 2 * Abs(v.z) > Abs(v.x) /\ 2 * Abs(v.z) > Abs(v.y)

C9_DiagonalRule(v) == Abs(v.x) > 3 /\ Abs(v.y) > 3

C9_Resolved(v, direction) ==
  /\ C9_DepthRule(v) => direction = (IF v.z < 0 THEN "forward" ELSE "backward")
  /\ (~C9_DepthRule(v) /\ C9_DiagonalRule(v)) =>
       direction = (IF v.y < 0 THEN "top-" ELSE "bottom-") \o (IF v.x > 0 THEN "right" ELSE "left")
  /\ (~C9_DepthRule(v) /\ ~C9_DiagonalRule(v) /\ Abs(v.x) > Abs(v.y)) =>
       direction = (IF v.x > 0 THEN "right" ELSE "left")
  /\ (~C9_DepthRule(v) /\ ~C9_DiagonalRule(v) /\ Abs(v.y) > Abs(v.x)) =>
       direction = (IF v.y > 0 THEN "down" ELSE "up")
  /\ v = Pt(0, 0, -20) => direction = "forward"
  /\ v = Pt(20, 20, 0) => direction = "bottom-right"
  /\ v = Pt(20, 0, 0) => direction = "right"

C9_PointDirection ==
  \A k \in 1..Len(candidates) :
    candidates[k].gesture.name = "point"
      => C9_Resolved(PointVector(lastFrame[k]), candidates[k].gesture.direction)

\* the three vectors of the claim have been classified as points
C9_Witness ==
  \E k \in 1..Len(candidates) :
    /\ candidates[k].gesture.name = "point"
    /\ PointVector(lastFrame[k]) = Pt(20, 20, 0)
    /\ candidates[k].gesture.direction = "bottom-right"


----------------------------------------------------------------------------
(* C1: a fresh hand fed the thumb-index distances 0.1, 0.04, 0.06, 0.08 on *)
(* consecutive frames is not pinching after 0.1, starts pinching at 0.04,  *)
(* still pinches at 0.06 and stops pinching only at 0.08.                  *)
C1_PinchHysteresis ==
  (scenario = "pinch" /\ fed >= 1) =>
    /\ Len(candidates) = 1
    /\ \A k \in 1..Len(candidates) :
         LET id == candidates[k].handId
             name == candidates[k].gesture.name
         IN  /\ fed = 1 => (~isPinching[id] /\ name # "pinch")
             /\ fed = 2 => (isPinching[id] /\ name = "pinch" /\ pinchStartTime[id] = now)
             /\ fed = 3 => (isPinching[id] /\ name = "pinch" /\ pinchStartTime[id] < now)
             /\ fed = 4 => (~isPinching[id] /\ name # "pinch")

\* the whole sequence has been fed and the pinch has ended
C1_Witness ==
  /\ scenario = "pinch" /\ fed = 4 /\ pending = <<>>
  /\ \E k \in 1..Len(candidates) :
       /\ ~isPinching[candidates[k].handId]
       /\ pinchStartTime[candidates[k].handId] > 0

----------------------------------------------------------------------------
(* C3: the same static frame fed twice for the same hand with a gap of at  *)
(* least 500ms yields two identical notifications.  As stated it fails at  *)
(* a gap of exactly 500ms (the code asks for more than 500ms) and for a    *)
(* pinch frame (the duration differs).                                     *)

\* the previous handleResults surfaced a static gesture for every hand of
\* its frame, to the listeners now registered, and this step feeds that frame again
FedAgain ==
  /\ IsFrameStep
  /\ lastFrame' = lastFrame
  /\ delivered # <<>>
  /\ [k \in 1..Len(delivered) |-> delivered[k].cb] = gestureCallbacks
  /\ \A k \in 1..Len(delivered) :
       /\ delivered[k].gesture.name \in StaticNames
       /\ delivered[k].handId \in DOMAIN staticLog
       /\ staticLog[delivered[k].handId].time = now

SameButDuration(c1, c2) ==
  c1 = [c2 EXCEPT !.gesture.duration = c1.gesture.duration]

----------------------------------------------------------------------------
(* C4: for each hand no two swipe events are less than 1000ms apart; a     *)
(* frame handled less than 1000ms after a swipe of the hand delivers no    *)
(* swipe, whatever motion it completes.                                    *)
C4_SwipeRefractory ==
  [][IsFrameStep =>
       \A id \in DOMAIN swipeLog :
         now' - swipeLog[id].time < 1000 => CallsNamed(delivered', id, "swipe") = {}]_vars

\* the motion that fired a swipe has been repeated within the second after it
C4_Witness ==
  \E id \in DOMAIN swipeLog :
    /\ swipeLog[id].n = 1
    /\ now - swipeLog[id].time >= 300
    /\ now - swipeLog[id].time < 1000
    /\ CallsNamed(delivered, id, "swipe") = {}
    /\ Lm(Landmarks(lastFrame[1]), 0).x = 60

----------------------------------------------------------------------------
(* C5: for a fresh hand, five wrist samples spanning 300ms with total      *)
(* displacement dx = 0.2, dy = 0.01 give exactly one swipe event, with     *)
(* direction right, on the fifth sample.                                   *)
C5_SwipeRight ==
  (scenario = "swipe" /\ fed >= 1) =>
    \A id \in FrameIds(lastFrame) :
      /\ fed < 5 => (id \notin DOMAIN swipeLog /\ CallsNamed(delivered, id, "swipe") = {})
      /\ fed = 5 =>
           /\ Cardinality(CallsNamed(delivered, id, "swipe")) = 1
           /\ \A k \in CallsNamed(delivered, id, "swipe") :
                delivered[k].gesture = Gesture("swipe", "right")
           /\ id \in DOMAIN swipeLog /\ swipeLog[id].n = 1

C5_Witness ==
  /\ scenario = "swipe" /\ fed = 5
  /\ \E k \in 1..Len(delivered) : delivered[k].gesture.name = "swipe"

----------------------------------------------------------------------------
(* C6: wrist x oscillating 0.5, 0.6, 0.5, 0.6 within 1500ms, in steps of   *)
(* at least 0.03 and at least 3 samples apart, fed to a fresh hand gives   *)
(* exactly one wave event.                                                 *)
C6_OneWave ==
  scenario = "wave" =>
    /\ \A id \in DOMAIN waveLog : waveLog[id].n <= 1
    /\ pending = <<>> =>
         \A id \in FrameIds(lastFrame) : id \in DOMAIN waveLog /\ waveLog[id].n = 1

C6_Witness ==
  /\ scenario = "wave" /\ pending = <<>>
  /\ \E id \in DOMAIN waveLog : waveLog[id].n = 1 /\ waveLog[id].time < now

----------------------------------------------------------------------------
(* C7: after a wave event of a hand no second wave event of that hand is   *)
(* emitted within the following 1000ms.  The code sets waveStartTime to    *)
(* now + 1000 but only tests now - waveStartTime < 2000, which two more    *)
(* reversals satisfy at once.                                              *)
C7_WaveCooldown ==
  [][IsFrameStep =>
       \A id \in DOMAIN waveLog :
         now' - waveLog[id].time < 1000 => CallsNamed(delivered', id, "wave") = {}]_vars

----------------------------------------------------------------------------
(* Frames with a non-finite wrist coordinate *)

\* one right hand, open, moving or at rest, pinching or not, wrist.x finite
\* or NaN
NaNFrames ==
  { <<Hand("Right", wx, W0, Ext4, Zero, d, 21)>> : wx \in {50, 60}, d \in {4, 10} }
    \cup { <<NaNWrist(Hand("Right", wx, W0, Ext4, Zero, d, 21))>> :
             wx \in {50, 60}, d \in {4, 10} }

NaNDts == {100}

NextNaN == FrameStep(NaNFrames, NaNDts, MaxNaNFrames)

SpecNaN == InitTracking /\ [][NextNaN]_vars

\* the value a per-hand map holds for id: {} when undefined
At(f, id) == {f[x] : x \in DOMAIN f \cap {id}}

----------------------------------------------------------------------------
(* C11: a frame with a NaN wrist coordinate is skipped for that hand: no   *)
(* gesture is emitted and the wave queue, reversal counter, last wave      *)
(* direction, swipe queue and pinch state are what they were before the    *)
(* frame.  The code has no such test: the NaN sample is pushed on both     *)
(* queues, the pinch state is updated and a static gesture is surfaced.    *)
C11_NaNFrameSkipped ==
  [][IsFrameStep =>
       \A k \in 1..Len(lastFrame') :
         lastFrame'[k].nan =>
           LET id == HandId(lastFrame'[k].label, k - 1)
           IN  /\ \A j \in 1..Len(delivered') : delivered'[j].handId # id
               /\ At(wavePositions', id) = At(wavePositions, id)
               /\ At(waveDirectionChanges', id) = At(waveDirectionChanges, id)
               /\ At(waveLastDirection', id) = At(waveLastDirection, id)
               /\ At(swipePositions', id) = At(swipePositions, id)
               /\ At(isPinching', id) = At(isPinching, id)
               /\ At(pinchStartTime', id) = At(pinchStartTime, id)]_vars

----------------------------------------------------------------------------
(* C12: after every processed frame for a hand, every sample retained in   *)
(* the hand's wave queue is at most 2000ms older than the frame time and   *)
(* every sample in its swipe queue at most 500ms older; the sample times   *)
(* increase along each queue, so the queue lengths are bounded.            *)
WithinWindow(q, t, window) ==
  /\ \A j \in 1..Len(q) : t - q[j].time <= window
  /\ \A j \in 1..(Len(q) - 1) : q[j].time < q[j + 1].time

C12_BoundedHistory ==
  \A k \in 1..Len(candidates) :
    /\ candidates[k].handId \in DOMAIN wavePositions
    /\ candidates[k].handId \in DOMAIN swipePositions
    /\ WithinWindow(wavePositions[candidates[k].handId], now, 2000)
    /\ WithinWindow(swipePositions[candidates[k].handId], now, 500)

\* both queues of a hand have dropped samples and still hold older ones
C12_Witness ==
  \E k \in 1..Len(candidates) :
    LET id == candidates[k].handId
    IN  /\ Len(wavePositions[id]) >= 2 /\ Len(wavePositions[id]) < fed
        /\ Len(swipePositions[id]) >= 2 /\ Len(swipePositions[id]) < fed
        /\ id \notin DOMAIN swipeLog
        /\ now - wavePositions[id][1].time > 1000

----------------------------------------------------------------------------
(* Frames with one or two hands (maxNumHands: 2) *)

\* a hand at rest: open, pinching, or delivered with 20 landmarks
HandChoices ==
  { Hand("Left", W0, W0, Ext4, Zero, 10, 21),
    Hand("Left", W0, W0, Ext4, Zero, 10, 20),
    Hand("Right", W0, W0, Ext4, Zero, 10, 21),
    Hand("Right", W0, W0, Ext4, Zero, 4, 21) }

HandsFrames ==
  { <<h>> : h \in HandChoices } \cup { <<h0, h1>> : h0 \in HandChoices, h1 \in HandChoices }

HandsDts == {100, 600}

NextHands == FrameStep(HandsFrames, HandsDts, MaxHandsFrames)

SpecHands == InitTracking /\ [][NextHands]_vars

\* every hand identity the frames can produce
AllIds == { HandId(label, handIndex) : label \in Labels, handIndex \in {0, 1} }

\* the state the maps of S hold for one identity
HandView(S, id) ==
  <<At(S.lastGesture, id), At(S.lastGestureTime, id), At(S.wavePositions, id),
    At(S.waveDirectionChanges, id), At(S.waveStartTime, id),
    At(S.waveLastDirection, id), At(S.lastPinchDistance, id), At(S.isPinching, id),
    At(S.pinchStartTime, id), At(S.swipePositions, id), At(S.swipeStartTime, id),
    At(S.lastSwipeTime, id)>>

\* the maps of S with every other identity removed
Restrict(f, id) == IF id \in DOMAIN f THEN Put(EmptyMap, id, f[id]) ELSE EmptyMap

Only(S, id) ==
  [lastGesture |-> Restrict(S.lastGesture, id),
   lastGestureTime |-> Restrict(S.lastGestureTime, id),
   wavePositions |-> Restrict(S.wavePositions, id),
   waveDirectionChanges |-> Restrict(S.waveDirectionChanges, id),
   waveStartTime |-> Restrict(S.waveStartTime, id),
   waveLastDirection |-> Restrict(S.waveLastDirection, id),
   lastPinchDistance |-> Restrict(S.lastPinchDistance, id),
   isPinching |-> Restrict(S.isPinching, id),
   pinchStartTime |-> Restrict(S.pinchStartTime, id),
   swipePositions |-> Restrict(S.swipePositions, id),
   swipeStartTime |-> Restrict(S.swipeStartTime, id),
   lastSwipeTime |-> Restrict(S.lastSwipeTime, id)]

CallsOf(calls, id) == SelectSeq(calls, LAMBDA c : c.handId = id)

----------------------------------------------------------------------------
(* C13: processing a frame for identity A leaves the state of every other  *)
(* identity B unchanged, and the notifications for A and A's new state are *)
(* those the forEach body gives from A's own state and A's own landmarks.  *)
(* The second part fails: a hand with 20 landmarks in an earlier slot      *)
(* raises a TypeError that ends the forEach, so the later slot is not      *)
(* processed at all.                                                       *)
C13_PerHandIsolation ==
  [][(IsFrameStep /\ gestureCallbacks # <<>>) =>
       /\ \A id \in AllIds \ FrameIds(lastFrame') :
            HandView(Maps', id) = HandView(Maps, id)
       /\ \A k \in 1..Len(lastFrame') :
            LET id  == HandId(lastFrame'[k].label, k - 1)
                own == processHand(Only(Maps, id), gestureCallbacks,
                                   Results(lastFrame')[k], k - 1, now')
            IN  /\ CallsOf(delivered', id) = own.out
                /\ HandView(Maps', id) = HandView(own.S, id)]_vars

\* C13 on the frames whose hands all have 21 landmarks
C13_IsolationWellFormed ==
  [][(IsFrameStep /\ gestureCallbacks # <<>>
        /\ \A k \in 1..Len(lastFrame') : lastFrame'[k].n = 21) =>
       /\ \A id \in AllIds \ FrameIds(lastFrame') :
            HandView(Maps', id) = HandView(Maps, id)
       /\ \A k \in 1..Len(lastFrame') :
            LET id  == HandId(lastFrame'[k].label, k - 1)
                own == processHand(Only(Maps, id), gestureCallbacks,
                                   Results(lastFrame')[k], k - 1, now')
            IN  /\ CallsOf(delivered', id) = own.out
                /\ HandView(Maps', id) = HandView(own.S, id)]_vars

----------------------------------------------------------------------------
(* C14: once stopTracking completes from the tracking state, and once      *)
(* startTracking succeeds, every per-hand map is empty; the first frame    *)
(* handled with empty maps starts each of its hands from not pinching,     *)
(* empty wave and swipe queues, zero reversals, no last direction and no   *)
(* last surfaced gesture (so a static candidate is surfaced at once).      *)
C14_ResetOnStopRestart ==
  [][/\ (isTracking' # isTracking) => Maps' = EmptyMaps
     /\ (IsFrameStep /\ Maps = EmptyMaps) =>
          \A k \in 1..Len(candidates') :
            LET id == candidates'[k].handId
            IN  /\ isPinching'[id] = (lastFrame'[k].d < 5)
                /\ pinchStartTime'[id] = (IF lastFrame'[k].d < 5 THEN now' ELSE 0)
                /\ Len(wavePositions'[id]) = 1 /\ Len(swipePositions'[id]) = 1
                /\ waveDirectionChanges'[id] = 0
                /\ waveLastDirection'[id] = "null"
                /\ lastSwipeTime'[id] = 0
                /\ candidates'[k].gesture # NoGesture =>
                     /\ StaticCalls(delivered', id) # {}
                     /\ lastGestureTime'[id] = now']_vars

\* stopTracking has completed after a frame that left a hand pinching
C14_Witness ==
  /\ ~isTracking
  /\ Maps = EmptyMaps
  /\ \E k \in 1..Len(delivered) : delivered[k].gesture.name = "pinch"

----------------------------------------------------------------------------
(* C15: on every frame on which a hand is pinching after the hysteresis    *)
(* update the static candidate for the hand is pinch, whatever the four    *)
(* finger flags are; point, open and grab (and no candidate) occur only    *)
(* when the hand is not pinching.                                          *)
C15_PinchPriority ==
  \A k \in 1..Len(candidates) :
    isPinching[candidates[k].handId] <=> candidates[k].gesture.name = "pinch"

\* a pinching hand whose four fingers are classified curled, classified pinch
C15_Witness ==
  \E k \in 1..Len(candidates) :
    /\ isPinching[candidates[k].handId]
    /\ \A f \in 1..4 : ~isFingerExtendedImproved(Landmarks(lastFrame[k]), f)
    /\ candidates[k].gesture.name = "pinch"

----------------------------------------------------------------------------
(* C16: while a hand is pinching, every frame for the hand delivers a      *)
(* pinch notification with that frame's strength and duration; the 500ms   *)
(* dedup by name does not suppress pinch.  The code has one report block   *)
(* for every static gesture: a pinch candidate whose name was surfaced     *)
(* less than 500ms ago is dropped.                                         *)
C16_ContinuousPinch ==
  \A k \in 1..Len(candidates) :
    candidates[k].gesture.name = "pinch" =>
      \E j \in 1..Len(delivered) :
        /\ delivered[j].handId = candidates[k].handId
        /\ delivered[j].gesture = candidates[k].gesture

----------------------------------------------------------------------------
(* C17: a wave or swipe detected on a frame is delivered on that frame     *)
(* whatever the hand's last surfaced gesture name and time are (the same   *)
(* temporal notifications result with the debounce state erased), it is    *)
(* delivered with landmarks = null, and delivering it does not change the  *)
(* last surfaced name or time: they change only when a static gesture is   *)
(* surfaced, the name is always a static one, and the frame's static       *)
(* candidate is debounced against the name and time held before the frame. *)
TemporalNames == {"wave", "swipe"}

TemporalCalls(calls) == SelectSeq(calls, LAMBDA c : c.gesture.name \in TemporalNames)

NoDebounce(S) == [S EXCEPT !.lastGesture = EmptyMap, !.lastGestureTime = EmptyMap]

C17_TemporalBypass ==
  [][IsFrameStep =>
       /\ \A j \in 1..Len(delivered') :
            delivered'[j].gesture.name \in TemporalNames => ~delivered'[j].landmarks
       /\ TemporalCalls(delivered')
            = TemporalCalls(handleResultsAt(NoDebounce(Maps), gestureCallbacks,
                                            Results(lastFrame'), now').out)
       /\ \A id \in FrameIds(lastFrame') :
            StaticCalls(delivered', id) = {} =>
              /\ At(lastGesture', id) = At(lastGesture, id)
              /\ At(lastGestureTime', id) = At(lastGestureTime, id)
       /\ \A k \in 1..Len(candidates') :
            StaticCalls(delivered', candidates'[k].handId) # {}
              <=> /\ candidates'[k].gesture # NoGesture
                  /\ shouldReport(Maps, candidates'[k].handId,
                                  candidates'[k].gesture.name, now')
       /\ \A id \in DOMAIN lastGesture' : lastGesture'[id] \in StaticNames]_vars

\* a swipe was delivered on a frame whose static gesture the debounce
\* suppressed, and the last surfaced gesture is still the earlier open
C17_Witness ==
  \E j \in 1..Len(delivered) :
    /\ delivered[j].gesture.name = "swipe"
    /\ ~delivered[j].landmarks
    /\ StaticCalls(delivered, delivered[j].handId) = {}
    /\ lastGesture[delivered[j].handId] = "open"
    /\ lastGestureTime[delivered[j].handId] < now
    /\ now - lastGestureTime[delivered[j].handId] < 500

----------------------------------------------------------------------------
(* Listener fan-out with several listeners *)

FanOutFrames ==
  { <<Hand("Right", W0, W0, Ext4, Zero, 10, 21)>>,
    <<Hand("Right", W0, W0, Curl4, Zero, 10, 21)>>,
    <<Hand("Left", W0, W0, Ext4, Zero, 10, 21), Hand("Right", W0, W0, Curl4, Zero, 10, 21)>> }

FanOutDts == {600}

FanOutListeners == {1, 2, 3}

\* tracking, nobody subscribed yet
InitFanOut ==
  /\ InitCommon
  /\ managerLoaded
  /\ isTracking = TRUE
  /\ gestureCallbacks = <<>> /\ handUpdateCallbacks = <<>>
  /\ pending = <<>> /\ scenario = "free"

NextFanOut ==
  \/ \E cb \in FanOutListeners : register(cb, MaxSubscriptions)
  \/ \E cb \in FanOutListeners : unsubscribe(cb)
  \/ FrameStep(FanOutFrames, FanOutDts, MaxFanOutFrames)

SpecFanOut == InitFanOut /\ [][NextFanOut]_vars

----------------------------------------------------------------------------
(* C18: each surfaced gesture is delivered exactly once to every listener  *)
(* registration in force at that moment, in registration order: the calls  *)
(* of a frame fall into consecutive blocks, one per surfaced gesture, each *)
(* block calling gestureCallbacks[1..n] in that order with one and the     *)
(* same gesture, and no gesture has two blocks.  An unsubscribe removes    *)
(* its listener from the list and leaves the others in their order; a      *)
(* listener that is not in the list is not called.                         *)
SameGesture(c1, c2) ==
  /\ c1.gesture = c2.gesture /\ c1.handId = c2.handId
  /\ c1.handedness = c2.handedness /\ c1.landmarks = c2.landmarks

C18_InBlocks(calls, cbs) ==
  /\ cbs = <<>> => calls = <<>>
  /\ cbs # <<>> =>
       /\ Len(calls) % Len(cbs) = 0
       /\ \A j \in 1..Len(calls) :
            /\ calls[j].cb = cbs[((j - 1) % Len(cbs)) + 1]
            /\ SameGesture(calls[j], calls[j - ((j - 1) % Len(cbs))])
       /\ \A i, j \in 1..Len(calls) :
            (i < j /\ (i - 1) % Len(cbs) = 0 /\ (j - 1) % Len(cbs) = 0)
              => ~SameGesture(calls[i], calls[j])

C18_FanOut ==
  [][/\ IsFrameStep => C18_InBlocks(delivered', gestureCallbacks)
     /\ Len(gestureCallbacks') < Len(gestureCallbacks) =>
          \E cb \in FanOutListeners :
            /\ InRange(gestureCallbacks, cb)
            /\ ~InRange(gestureCallbacks', cb)
            /\ gestureCallbacks' = SelectSeq(gestureCallbacks, LAMBDA x : x # cb)]_vars

\* two gestures were delivered to listeners 1, 2, 3 in that order, then
\* listener 2 unsubscribed
C18_Witness ==
  /\ Len(delivered) = 6
  /\ [j \in 1..3 |-> delivered[j].cb] = <<1, 2, 3>>
  /\ gestureCallbacks = <<1, 3>>

----------------------------------------------------------------------------
(* C19: the pinching flag of a hand goes from false to true only on a      *)
(* frame with thumb-index distance < 0.05 and from true to false only on a *)
(* frame with distance > 0.07; on a frame with distance in [0.05, 0.07]    *)
(* it keeps its value; pinchStartTime changes only on a false-to-true      *)
(* transition, where it becomes the frame time.  A hand without state      *)
(* counts as not pinching with pinchStartTime 0.                           *)
WasPinching(id) == id \in DOMAIN isPinching /\ isPinching[id]

PinchStartBefore(id) == IF id \in DOMAIN pinchStartTime THEN pinchStartTime[id] ELSE 0

\* the thumb-tip to index-tip distance of a described hand, squared
ThumbIndexSq(h) == distance3DSquared(Lm(Landmarks(h), 4), Lm(Landmarks(h), 8))

C19_HysteresisBand ==
  [][IsFrameStep =>
       \A k \in 1..Len(candidates') :
         LET id == candidates'[k].handId
             dd == ThumbIndexSq(lastFrame'[k])
         IN  /\ (~WasPinching(id) /\ isPinching'[id]) => dd < 5 * 5
             /\ (WasPinching(id) /\ ~isPinching'[id]) => dd > 7 * 7
             /\ (dd >= 5 * 5 /\ dd <= 7 * 7) => isPinching'[id] = WasPinching(id)
             /\ pinchStartTime'[id] # PinchStartBefore(id)
                  => (~WasPinching(id) /\ isPinching'[id])
             /\ (~WasPinching(id) /\ isPinching'[id]) => pinchStartTime'[id] = now']_vars

\* a hand that started pinching on an earlier frame still pinches at 0.07
C19_Witness ==
  \E k \in 1..Len(candidates) :
    /\ ThumbIndexSq(lastFrame[k]) = 7 * 7
    /\ isPinching[candidates[k].handId]
    /\ pinchStartTime[candidates[k].handId] < now

----------------------------------------------------------------------------
(* C20: for a hand that is not pinching the static candidate is a total    *)
(* function of the four finger flags (index, middle, ring, pinky): point   *)
(* iff (extended, curled, curled, curled), open iff all four extended,     *)
(* grab iff all four curled, none for every other combination; a frame     *)
(* gives one candidate per hand at most.                                   *)
Flags(h) == [f \in 1..4 |-> isFingerExtendedImproved(Landmarks(h), f)]

C20_Class(flags) ==
  IF flags = <<TRUE, FALSE, FALSE, FALSE>> THEN "point"
  ELSE IF flags = <<TRUE, TRUE, TRUE, TRUE>> THEN "open"
  ELSE IF flags = <<FALSE, FALSE, FALSE, FALSE>> THEN "grab"
  ELSE "null"

C20_TotalOnFlags ==
  /\ Len(candidates) <= Len(lastFrame)
  /\ \A k \in 1..Len(candidates) :
       /\ candidates[k].handId = HandId(lastFrame[k].label, k - 1)
       /\ ~isPinching[candidates[k].handId] =>
            /\ candidates[k].gesture.name = C20_Class(Flags(lastFrame[k]))
            /\ candidates[k].gesture.name # "point" => candidates[k].gesture.direction = "none"
       /\ Cardinality(StaticCalls(delivered, candidates[k].handId)) <= Len(gestureCallbacks)

\* a hand that is not pinching, with the index curled and the other three
\* fingers extended, has no static candidate
C20_Witness ==
  \E k \in 1..Len(candidates) :
    /\ ~isPinching[candidates[k].handId]
    /\ Flags(lastFrame[k]) = <<FALSE, TRUE, TRUE, TRUE>>
    /\ candidates[k].gesture = NoGesture

----------------------------------------------------------------------------
(* Frames of the finger specification: every finger straight, folded,      *)
(* folded at the DIP with the tip far out, or straight with the tip on the *)
(* wrist, so that every combination of the three signals occurs            *)

FingerPoses == {"ext", "curl", "hook", "point"}

FingerFrames ==
  { <<Hand("Right", W0, W0, <<p1, p2, p3, p4>>, Zero, 10, 21)>> :
       p1 \in FingerPoses, p2 \in FingerPoses, p3 \in FingerPoses, p4 \in FingerPoses }

FingerDts == {100}

NextFinger == FrameStep(FingerFrames, FingerDts, MaxFingerFrames)

SpecFinger == InitTracking /\ [][NextFinger]_vars

----------------------------------------------------------------------------
(* C21: with the three signals distance-ratio (> 1.1 index, > 1.2 others), *)
(* straightness (both joint pairs > 0.5 index, > 0.7 others) and           *)
(* separation, the index finger is classified extended iff at least one    *)
(* of the three holds and each of middle, ring and pinky iff distance-     *)
(* ratio and straightness both hold; the static candidate of a hand that   *)
(* is not pinching is the one these flags give.                            *)
C21_Ratio(h, f) == distanceRatioAbove(Landmarks(h), f, IF f = 1 THEN 110 ELSE 120)

C21_Straight(h, f) == straightAbove(Landmarks(h), f, IF f = 1 THEN 5 ELSE 7)

C21_Separated(h) ==
  100 * distance3DSquared(Lm(Landmarks(h), 8), Lm(Landmarks(h), 12))
    > 49 * distance3DSquared(Lm(Landmarks(h), 5), Lm(Landmarks(h), 12))

C21_Rule(h, f) ==
  IF f = 1 THEN C21_Ratio(h, 1) \/ C21_Straight(h, 1) \/ C21_Separated(h)
  ELSE C21_Ratio(h, f) /\ C21_Straight(h, f)

C21_ExtensionRule ==
  \A k \in 1..Len(candidates) :
    /\ \A f \in 1..4 :
         isFingerExtendedImproved(Landmarks(lastFrame[k]), f) <=> C21_Rule(lastFrame[k], f)
    /\ ~isPinching[candidates[k].handId] =>
         candidates[k].gesture.name = C20_Class([f \in 1..4 |-> C21_Rule(lastFrame[k], f)])

\* the index finger is extended by separation alone while the middle finger,
\* far out but folded at the DIP, is not extended
C21_Witness ==
  \E k \in 1..Len(candidates) :
    /\ ~C21_Ratio(lastFrame[k], 1) /\ ~C21_Straight(lastFrame[k], 1)
    /\ C21_Separated(lastFrame[k])
    /\ isFingerExtendedImproved(Landmarks(lastFrame[k]), 1)
    /\ C21_Ratio(lastFrame[k], 2) /\ ~C21_Straight(lastFrame[k], 2)
    /\ ~isFingerExtendedImproved(Landmarks(lastFrame[k]), 2)
    /\ candidates[k].gesture = NoGesture

----------------------------------------------------------------------------
(* Properties of the wave detector: the values a frame's direction test    *)
(* reads.  A hand without wave state gets it on the frame (no reversals,   *)
(* window opened at the frame time, no last direction); the stale-wave     *)
(* reset, made on a frame with at least 3 buffered samples more than       *)
(* 3000ms after the window start, gives the same values.                   *)

\* the stale-wave reset is made for hand id on this frame
WaveStaleReset(id) ==
  /\ id \in DOMAIN waveStartTime
  /\ Len(wavePositions'[id]) >= 3
  /\ now' - waveStartTime[id] > 3000

WaveFresh(id) == id \notin DOMAIN waveStartTime \/ WaveStaleReset(id)

WaveCountAtTest(id) == IF WaveFresh(id) THEN 0 ELSE waveDirectionChanges[id]

WaveStartAtTest(id) == IF WaveFresh(id) THEN now' ELSE waveStartTime[id]

WaveLastAtTest(id) == IF WaveFresh(id) THEN "null" ELSE waveLastDirection[id]

\* latest sample minus the sample two positions back, after the push
WaveSkipOneDelta(id) ==
  wavePositions'[id][Len(wavePositions'[id])].x
    - wavePositions'[id][Len(wavePositions'[id]) - 2].x

\* the direction of the frame: none with fewer than 3 samples or a small delta
WaveFrameDirection(id) ==
  IF Len(wavePositions'[id]) < 3 THEN "null"
  ELSE IF Abs(WaveSkipOneDelta(id)) < 3 THEN "null"
       ELSE IF WaveSkipOneDelta(id) > 0 THEN "right" ELSE "left"

WaveReversal(id) ==
  /\ WaveFrameDirection(id) # "null"
  /\ WaveLastAtTest(id) # "null"
  /\ WaveLastAtTest(id) # WaveFrameDirection(id)

----------------------------------------------------------------------------
(* C22: a frame emits a wave for a hand iff it registers a direction       *)
(* reversal (its direction differs from a non-null last direction) that    *)
(* brings the reversal counter to at least 2 while now - windowStart <      *)
(* 2000; on emission the counter becomes 0 and windowStart now + 1000; on  *)
(* every frame that has a direction the last direction becomes it.  One    *)
(* wave is delivered to each listener, with name wave and no landmarks.    *)
C22_Emits(id) ==
  /\ WaveReversal(id)
  /\ WaveCountAtTest(id) + 1 >= 2
  /\ now' - WaveStartAtTest(id) < 2000

C22_WaveEmission ==
  [][IsFrameStep =>
       \A id \in FrameIds(lastFrame') :
         /\ CallsNamed(delivered', id, "wave") # {} <=> C22_Emits(id)
         /\ Cardinality(CallsNamed(delivered', id, "wave"))
              = (IF C22_Emits(id) THEN Len(gestureCallbacks) ELSE 0)
         /\ \A j \in CallsNamed(delivered', id, "wave") : ~delivered'[j].landmarks
         /\ C22_Emits(id) =>
              /\ waveDirectionChanges'[id] = 0
              /\ waveStartTime'[id] = now' + 1000
         /\ WaveFrameDirection(id) # "null" =>
              waveLastDirection'[id] = WaveFrameDirection(id)]_vars

\* a wave has just been emitted: counter 0, window start one second ahead
C22_Witness ==
  \E id \in DOMAIN waveLog :
    /\ waveLog[id].time = now
    /\ CallsNamed(delivered, id, "wave") # {}
    /\ waveDirectionChanges[id] = 0
    /\ waveStartTime[id] = now + 1000
    /\ waveLastDirection[id] \in {"left", "right"}

----------------------------------------------------------------------------
(* C23: whenever a wave is emitted, the two reversals counted toward it    *)
(* lie less than 2000ms apart, also for a wave that follows an earlier     *)
(* wave of the hand.  After a wave the code dates the window start 1000ms  *)
(* ahead, so the test now - waveStartTime < 2000 lets the next wave        *)
(* through until 3000ms after the previous one: a reversal counted just    *)
(* after a wave and one counted more than 2000ms later emit a wave.        *)
C23_ReversalsWithinWindow ==
  [][IsFrameStep =>
       \A id \in FrameIds(lastFrame') :
         CallsNamed(delivered', id, "wave") # {} =>
           /\ id \in DOMAIN reversalLog
           /\ now' - reversalLog[id] < 2000]_vars

----------------------------------------------------------------------------
(* C24: on a frame arriving with at least 3 buffered samples more than     *)
(* 3000ms after the window start, the counter is set to 0, the window      *)
(* start to the frame time and the last direction to none before the       *)
(* movement of the frame is evaluated: the frame counts no reversal and    *)
(* emits no wave, it leaves the counter at 0, the window start at the      *)
(* frame time and the last direction at the frame's own direction (none    *)
(* when it has none), and no reversal counted earlier remains counted.     *)
C24_StaleWaveReset ==
  [][IsFrameStep =>
       \A id \in FrameIds(lastFrame') :
         WaveStaleReset(id) =>
           /\ ~WaveReversal(id)
           /\ CallsNamed(delivered', id, "wave") = {}
           /\ waveDirectionChanges'[id] = 0
           /\ waveStartTime'[id] = now'
           /\ waveLastDirection'[id] = WaveFrameDirection(id)
           /\ id \notin DOMAIN reversalLog']_vars

\* the reset has just been made on a frame that has a direction
C24_Witness ==
  \E id \in DOMAIN waveStartTime :
    /\ Len(wavePositions[id]) >= 3
    /\ waveStartTime[id] = now
    /\ waveDirectionChanges[id] = 0
    /\ waveLastDirection[id] \in {"left", "right"}
    /\ fed >= 5

----------------------------------------------------------------------------
(* Frames of the slow-wrist specification: the wrist moves by 0.01, 0.02 or *)
(* 0.03 between samples, 100ms or 1600ms apart                             *)

DriftFrames == { Moving("Right", wx, W0) : wx \in {50, 52, 53} }

DriftDts == {100, 1600}

NextDrift == FrameStep(DriftFrames, DriftDts, MaxDriftFrames)

SpecDrift == InitTracking /\ [][NextDrift]_vars

----------------------------------------------------------------------------
(* C25: a frame on which fewer than 3 wave samples are buffered, or on     *)
(* which the latest sample minus the sample two positions back has         *)
(* magnitude below 0.03, does not increment the reversal counter, does not *)
(* set the last direction to left or right (it keeps it or clears it) and  *)
(* emits no wave.                                                          *)
C25_Quiet(id) ==
  \/ Len(wavePositions'[id]) < 3
  \/ Abs(WaveSkipOneDelta(id)) < 3

C25_SmallMovementIgnored ==
  [][IsFrameStep =>
       \A id \in FrameIds(lastFrame') :
         C25_Quiet(id) =>
           /\ \A c \in At(waveDirectionChanges, id) : waveDirectionChanges'[id] <= c
           /\ At(waveDirectionChanges, id) = {} => waveDirectionChanges'[id] = 0
           /\ \/ At(waveLastDirection', id) = At(waveLastDirection, id)
              \/ waveLastDirection'[id] = "null"
           /\ CallsNamed(delivered', id, "wave") = {}]_vars

\* after a movement to the right the wrist has moved back by less than 0.03:
\* the last direction is still right and no reversal is counted
C25_Witness ==
  \E id \in DOMAIN wavePositions :
    /\ Len(wavePositions[id]) >= 3
    /\ wavePositions[id][Len(wavePositions[id])].x
         - wavePositions[id][Len(wavePositions[id]) - 2].x \in {-2, -1}
    /\ waveLastDirection[id] = "right"
    /\ waveDirectionChanges[id] = 0

----------------------------------------------------------------------------
(* Frames of the swipe-threshold specification: the wrist moves by 0.15    *)
(* along x or by 0.16 along y, the samples 50ms or 125ms apart, so that    *)
(* five samples span 200ms to 500ms                                        *)

LimitFrames ==
  { Moving("Right", 40, 50), Moving("Right", 55, 50), Moving("Right", 40, 66) }

LimitDts == {50, 125}

NextLimit == FrameStep(LimitFrames, LimitDts, MaxLimitFrames)

SpecLimit == InitTracking /\ [][NextLimit]_vars

----------------------------------------------------------------------------
(* C26: a frame emits a swipe for a hand iff the hand is outside its       *)
(* refractory period (1000ms from its last swipe), at least 5 samples are  *)
(* buffered once those more than 500ms old are dropped, and between the    *)
(* oldest and the newest of them (|dx| > 0.15 or |dy| > 0.15) and          *)
(* (|dx / elapsed| > 0.5 or |dy / elapsed| > 0.5), elapsed in seconds;     *)
(* one swipe is then delivered to each listener.  With fewer than 5        *)
(* buffered samples no swipe is emitted.                                   *)
C26_InRefractory(id) ==
  \E last \in At(lastSwipeTime, id) : now' - last < 1000

\* the samples buffered on the frame of slot k: the earlier ones and the new one
C26_Buffered(id, k) ==
  SelectSeq((IF id \in DOMAIN swipePositions THEN swipePositions[id] ELSE <<>>)
              \o <<[x |-> lastFrame'[k].wx, y |-> lastFrame'[k].wy, time |-> now',
                    nan |-> FALSE]>>,
            LAMBDA s : now' - s.time <= 500)

C26_Moved(first, last) ==
  /\ (Abs(last.x - first.x) > 15 \/ Abs(last.y - first.y) > 15)
  /\ \/ 1000 * Abs(last.x - first.x) > 50 * (last.time - first.time)
     \/ 1000 * Abs(last.y - first.y) > 50 * (last.time - first.time)

C26_Expected(id, k) ==
  /\ ~C26_InRefractory(id)
  /\ Len(C26_Buffered(id, k)) >= 5
  /\ C26_Moved(C26_Buffered(id, k)[1], C26_Buffered(id, k)[Len(C26_Buffered(id, k))])

C26_SwipeEmission ==
  [][IsFrameStep =>
       \A k \in 1..Len(lastFrame') :
         LET id == HandId(lastFrame'[k].label, k - 1)
         IN  /\ CallsNamed(delivered', id, "swipe") # {} <=> C26_Expected(id, k)
             /\ Cardinality(CallsNamed(delivered', id, "swipe"))
                  = (IF C26_Expected(id, k) THEN Len(gestureCallbacks) ELSE 0)
             /\ Len(C26_Buffered(id, k)) < 5 => CallsNamed(delivered', id, "swipe") = {}]_vars

\* a swipe was emitted on the sixth frame: five or six samples were buffered
C26_Witness ==
  \E id \in DOMAIN swipeLog :
    /\ swipeLog[id].time = now
    /\ CallsNamed(delivered, id, "swipe") # {}
    /\ fed = 6

----------------------------------------------------------------------------
(* Frames of the swipe-direction specification: the wrist jumps between    *)
(* four positions, 50ms apart, giving displacements along x, along y, on   *)
(* the diagonal (|dx| = |dy|) and off it, in both senses                   *)

AxesFrames ==
  { Moving("Right", 40, 50), Moving("Right", 56, 66),
    Moving("Right", 40, 66), Moving("Right", 57, 50) }

AxesDts == {50}

NextAxes == FrameStep(AxesFrames, AxesDts, MaxAxesFrames)

SpecAxes == InitTracking /\ [][NextAxes]_vars

----------------------------------------------------------------------------
(* C27: every emitted swipe carries one of the four directions: right      *)
(* (dx > 0) or left (dx < 0) when |dx| > |dy|, otherwise down (dy > 0) or  *)
(* up (dy < 0); with |dx| = |dy| the swipe is vertical.  dx and dy are     *)
(* taken between the oldest and the newest buffered sample.                *)
C27_Direction(dx, dy) ==
  CASE Abs(dx) > Abs(dy) /\ dx > 0 -> "right"
    [] Abs(dx) > Abs(dy) /\ dx < 0 -> "left"
    [] Abs(dx) <= Abs(dy) /\ dy > 0 -> "down"
    [] Abs(dx) <= Abs(dy) /\ dy < 0 -> "up"
    [] OTHER -> "none"

C27_Between(first, last) == C27_Direction(last.x - first.x, last.y - first.y)

C27_SwipeDirection ==
  [][IsFrameStep =>
       \A k \in 1..Len(lastFrame') :
         \A j \in CallsNamed(delivered', HandId(lastFrame'[k].label, k - 1), "swipe") :
           /\ delivered'[j].gesture.direction \in {"right", "left", "down", "up"}
           /\ delivered'[j].gesture.direction
                = C27_Between(C26_Buffered(HandId(lastFrame'[k].label, k - 1), k)[1],
                              [x |-> lastFrame'[k].wx, y |-> lastFrame'[k].wy])]_vars

\* a swipe over (0.16, 0.16), from (0.40, 0.50) to (0.56, 0.66), was emitted
\* on the fifth frame with direction down
C27_Witness ==
  \E j \in 1..Len(delivered) :
    /\ delivered[j].gesture = Gesture("swipe", "down")
    /\ fed = 5
    /\ wavePositions[delivered[j].handId][1].x = 40
    /\ wavePositions[delivered[j].handId][1].y = 50
    /\ lastFrame[1].wx = 56 /\ lastFrame[1].wy = 66

----------------------------------------------------------------------------
(* C28: for each frame and each hand in it (taken here: each hand          *)
(* delivered with its 21 landmarks), every listener receives at most one   *)
(* static gesture, at most one wave and at most one swipe, and the wave    *)
(* and swipe detectors are run on the frame whatever the static classifier *)
(* returned, a pinch included: the wave queue of the hand ends with the    *)
(* sample of the frame, and so does its swipe queue unless the hand is in  *)
(* its refractory period or the frame emitted a swipe.  The second part    *)
(* fails for a hand behind a hand delivered with 20 landmarks: the         *)
(* TypeError ends the forEach before either detector is called.            *)
C28_EndsNow(q) == q # <<>> /\ q[Len(q)].time = now'

C28_DetectorsRan(id) ==
  /\ \E q \in At(wavePositions', id) : C28_EndsNow(q)
  /\ \E q \in At(swipePositions', id) :
       \/ C26_InRefractory(id)
       \/ CallsNamed(delivered', id, "swipe") # {}
       \/ C28_EndsNow(q)

C28_AtMostOneEach(id) ==
  /\ Cardinality(StaticCalls(delivered', id)) <= Len(gestureCallbacks)
  /\ Cardinality(CallsNamed(delivered', id, "wave")) <= Len(gestureCallbacks)
  /\ Cardinality(CallsNamed(delivered', id, "swipe")) <= Len(gestureCallbacks)

C28_OnePerStage ==
  [][(IsFrameStep /\ gestureCallbacks # <<>>) =>
       \A k \in 1..Len(lastFrame') :
         lastFrame'[k].n = 21 =>
           /\ C28_AtMostOneEach(HandId(lastFrame'[k].label, k - 1))
           /\ C28_DetectorsRan(HandId(lastFrame'[k].label, k - 1))]_vars

\* C28 on the frames whose hands all have 21 landmarks
C28_OnePerStageWellFormed ==
  [][(IsFrameStep /\ gestureCallbacks # <<>>
        /\ \A k \in 1..Len(lastFrame') : lastFrame'[k].n = 21) =>
       \A id \in FrameIds(lastFrame') :
         C28_AtMostOneEach(id) /\ C28_DetectorsRan(id)]_vars

----------------------------------------------------------------------------
(* The loop specification: startTracking, stopTracking and the frame loop  *)
(* step by step, with one gesture listener and one hand-update listener    *)

LoopFrames == { <<>>, <<Hand("Right", W0, W0, Ext4, Zero, 10, 21)>> }

LoopDts == {100}

\* after initialize(), setVideoElement(), onGestureDetected(1), onHandUpdate(1)
InitLoop ==
  /\ InitCommon
  /\ managerLoaded
  /\ isTracking = FALSE
  /\ gestureCallbacks = <<1>> /\ handUpdateCallbacks = <<1>>
  /\ pending = <<>> /\ scenario = "free"

NextLoop ==
  \/ startTrackingCalled
  \/ startTrackingResumed
  \/ stopTracking
  \/ processFrame
  \/ onResults(LoopFrames, LoopDts, MaxLoopFrames)

SpecLoop == InitLoop /\ [][NextLoop]_vars

----------------------------------------------------------------------------
(* C29: once stopTracking has completed and until startTracking is called  *)
(* again, no gesture listener and no hand-update listener is notified and  *)
(* no per-hand state is created, also when a frame sent to the hand        *)
(* tracker before the stop delivers its results after it.  handleResults   *)
(* does not look at isTracking: the late results are dispatched in full.   *)
C29_QuietAfterStop ==
  [][(IsFrameStep /\ ~isTracking /\ starting = 0) =>
       /\ delivered' = <<>>
       /\ handUpdates' = 0
       /\ Maps' = EmptyMaps]_vars

----------------------------------------------------------------------------
(* C30: at most one frame loop is active at a time: a startTracking call   *)
(* made while tracking is active, or while an earlier call is still        *)
(* waiting for the camera or the video, starts no second loop.  The test   *)
(* on isTracking is made before the wait and not again after it: of two    *)
(* calls waiting together, the one that resumes second finds tracking      *)
(* active and calls processFrame all the same.                             *)
C30_SingleLoop ==
  [][(starting' < starting /\ isTracking) => sending' + scheduled' <= 1]_vars

----------------------------------------------------------------------------
(* Frames of the interrupted-gesture specification: no hand, or one right  *)
(* hand that is open, has no static candidate (two fingers extended) or    *)
(* grabs; the wrist position tells the three apart in the wave queue       *)

GapFrames ==
  { <<>>,
    <<Hand("Right", W0, W0, Ext4, Zero, 10, 21)>>,
    <<Hand("Right", W0 + 1, W0, Mixed4, Zero, 10, 21)>>,
    <<Hand("Right", W0 + 2, W0, Curl4, Zero, 10, 21)>> }

GapDts == {150, 250}

NextGap == FrameStep(GapFrames, GapDts, MaxGapFrames)

SpecGap == InitTracking /\ [][NextGap]_vars

----------------------------------------------------------------------------
(* C31: a frame whose static candidate is suppressed by the debounce, or   *)
(* that has no static candidate for the hand, leaves the hand's last       *)
(* surfaced gesture name and time as they were and delivers no static      *)
(* gesture for it; hence a candidate whose name is the one last surfaced   *)
(* for the hand, 500ms ago or less, is not surfaced, whatever frames came  *)
(* in between.                                                             *)

\* the frame has a static candidate for hand id that passes the debounce
C31_Passes(id) ==
  \E k \in 1..Len(candidates') :
    /\ candidates'[k].handId = id
    /\ candidates'[k].gesture # NoGesture
    /\ \/ At(lastGesture, id) # {candidates'[k].gesture.name}
       \/ \E last \in At(lastGestureTime, id) : now' - last > 500

C31_SuppressedKeepsDebounce ==
  [][IsFrameStep =>
       /\ \A id \in AllIds :
            ~C31_Passes(id) =>
              /\ At(lastGesture', id) = At(lastGesture, id)
              /\ At(lastGestureTime', id) = At(lastGestureTime, id)
              /\ StaticCalls(delivered', id) = {}
       /\ \A k \in 1..Len(candidates') :
            (/\ candidates'[k].handId \in DOMAIN staticLog
             /\ staticLog[candidates'[k].handId].name = candidates'[k].gesture.name
             /\ now' - staticLog[candidates'[k].handId].time <= 500)
              => StaticCalls(delivered', candidates'[k].handId) = {}]_vars

\* open was surfaced, a frame without static candidate followed, and open,
\* back within 500ms of its surfacing, was not surfaced again
C31_Witness ==
  \E k \in 1..Len(candidates) :
    LET id == candidates[k].handId
    IN  /\ candidates[k].gesture.name = "open"
        /\ delivered = <<>>
        /\ id \in DOMAIN staticLog
        /\ staticLog[id].name = "open" /\ staticLog[id].n = 1
        /\ lastGesture[id] = "open" /\ lastGestureTime[id] = staticLog[id].time
        /\ now - staticLog[id].time <= 500
        /\ \E j \in 1..Len(wavePositions[id]) :
             /\ wavePositions[id][j].x = W0 + 1
             /\ wavePositions[id][j].time > staticLog[id].time

----------------------------------------------------------------------------
(* C32: a frame that emits a swipe for a hand empties the hand's sample    *)
(* buffer and sets its last swipe time (and the start of its swipe window) *)
(* to the frame time; a frame arriving less than 1000ms after the hand's   *)
(* last swipe leaves the buffer, the last swipe time and the window start  *)
(* as they were: its wrist sample is not buffered.  Every buffered sample  *)
(* is therefore at least 1000ms younger than the last swipe, and the next  *)
(* swipe is computed from at least 5 such samples.                         *)
C32_RefractoryFreeze ==
  [][IsFrameStep =>
       \A k \in 1..Len(lastFrame') :
         LET id == HandId(lastFrame'[k].label, k - 1)
         IN  /\ CallsNamed(delivered', id, "swipe") # {} =>
                  /\ swipePositions'[id] = <<>>
                  /\ lastSwipeTime'[id] = now'
                  /\ swipeStartTime'[id] = now'
                  /\ Len(C26_Buffered(id, k)) >= 5
                  /\ \A last \in At(lastSwipeTime, id) :
                       \A j \in 1..Len(C26_Buffered(id, k)) :
                         C26_Buffered(id, k)[j].time - last >= 1000
             /\ C26_InRefractory(id) =>
                  /\ swipePositions'[id] = swipePositions[id]
                  /\ lastSwipeTime'[id] = lastSwipeTime[id]
                  /\ swipeStartTime'[id] = swipeStartTime[id]
                  /\ CallsNamed(delivered', id, "swipe") = {}
             /\ \A j \in 1..Len(swipePositions'[id]) :
                  swipePositions'[id][j].time - lastSwipeTime'[id] >= 1000]_vars

\* two frames have arrived in the refractory period of a swipe: the buffer
\* is still empty and the last swipe time is still the time of the swipe
C32_Witness ==
  \E id \in DOMAIN swipeLog :
    /\ swipeLog[id].n = 1
    /\ now - swipeLog[id].time >= 150
    /\ now - swipeLog[id].time < 1000
    /\ swipePositions[id] = <<>>
    /\ lastSwipeTime[id] = swipeLog[id].time
    /\ swipeStartTime[id] = swipeLog[id].time
    /\ fed >= 7

\* a second swipe of the hand has been emitted
C32_SecondSwipe ==
  \E id \in DOMAIN swipeLog : swipeLog[id].n = 2 /\ swipeLog[id].time = now

----------------------------------------------------------------------------
(* Frames of the delivery-order specification: a left and a right hand     *)
(* moving together, 75ms apart, open or closed, so that one frame can      *)
(* complete a wave and a swipe and change the static gesture of both       *)

OrderFrames ==
  { <<Hand("Left", wx, W0, pose, Zero, 10, 21), Hand("Right", wx, W0, pose, Zero, 10, 21)>> :
       wx \in {50, 60, 80}, pose \in {Ext4, Curl4} }

OrderDts == {75}

NextOrder == FrameStep(OrderFrames, OrderDts, MaxOrderFrames)

SpecOrder == InitTracking /\ [][NextOrder]_vars

----------------------------------------------------------------------------
(* C33: within one frame the notifications of a hand are delivered wave    *)
(* first, then swipe, then the surfaced static gesture, and every          *)
(* notification of the hand in slot i comes before those of the hand in    *)
(* slot i + 1.                                                             *)

\* wave 1, swipe 2, static 3
C33_Stage(name) == IF name = "wave" THEN 1 ELSE IF name = "swipe" THEN 2 ELSE 3

\* the place of a listener call in the order of the claim; handId[2] is the slot
C33_Place(c) == 3 * c.handId[2] + C33_Stage(c.gesture.name)

C33_DeliveryOrder ==
  [][IsFrameStep =>
       \A i, j \in 1..Len(delivered') :
         i < j =>
           /\ C33_Place(delivered'[i]) <= C33_Place(delivered'[j])
           /\ C33_Place(delivered'[i]) = C33_Place(delivered'[j])
                => delivered'[i].cb # delivered'[j].cb]_vars

\* one frame delivered a wave, a swipe and a grab for each of the two hands
C33_Witness ==
  /\ Len(delivered) = 6
  /\ [j \in 1..6 |-> delivered[j].gesture.name]
       = <<"wave", "swipe", "grab", "wave", "swipe", "grab">>
  /\ [j \in 1..6 |-> delivered[j].handId]
       = <<HandId("Left", 0), HandId("Left", 0), HandId("Left", 0),
           HandId("Right", 1), HandId("Right", 1), HandId("Right", 1)>>

----------------------------------------------------------------------------
(* The no-listener specification: one listener subscribes and unsubscribes *)
(* while frames of a moving right hand, pinching or not, keep arriving     *)

IdleFrames ==
  { <<Hand("Right", wx, W0, Ext4, Zero, d, 21)>> : wx \in {50, 60}, d \in {4, 10} }

IdleDts == {100}

NextIdle ==
  \/ \E cb \in Listeners : onGestureDetected(cb)
  \/ \E cb \in Listeners : unsubscribe(cb)
  \/ FrameStep(IdleFrames, IdleDts, MaxIdleFrames)

SpecIdle == InitFanOut /\ [][NextIdle]_vars

----------------------------------------------------------------------------
(* C34: while no gesture listener is registered a frame changes no         *)
(* per-hand state (pinch flag and times, wave queue, counter, window and   *)
(* direction, swipe queue and times, debounce name and time) and delivers  *)
(* nothing; every sample that enters a wave or swipe queue is the sample   *)
(* of a frame handled with a listener registered, so motion seen while     *)
(* nobody is subscribed is in no queue when a listener subscribes.         *)
C34_Entered(q, qBefore) ==
  {j \in 1..Len(q) : \A i \in 1..Len(qBefore) : qBefore[i] # q[j]}

C34_QueuedWhileListened(f, fBefore) ==
  \A id \in DOMAIN f :
    \A j \in C34_Entered(f[id], IF id \in DOMAIN fBefore THEN fBefore[id] ELSE <<>>) :
      /\ IsFrameStep
      /\ gestureCallbacks # <<>>
      /\ f[id][j].time = now'

C34_IdleWithoutListener ==
  [][/\ (IsFrameStep /\ gestureCallbacks = <<>>) =>
          /\ Maps' = Maps
          /\ delivered' = <<>>
          /\ candidates' = <<>>
     /\ C34_QueuedWhileListened(wavePositions', wavePositions)
     /\ C34_QueuedWhileListened(swipePositions', swipePositions)]_vars

\* three frames 100ms apart, the second one with nobody subscribed: the
\* queues hold the samples of the first and the third, 200ms apart
C34_Witness ==
  \E id \in DOMAIN wavePositions :
    /\ gestureCallbacks # <<>>
    /\ Len(wavePositions[id]) = 2
    /\ wavePositions[id][2].time = now
    /\ wavePositions[id][2].time - wavePositions[id][1].time = 200
    /\ swipePositions[id] = wavePositions[id]
    /\ fed = 3
    /\ ~isPinching[id]
    /\ pinchStartTime[id] = 0

----------------------------------------------------------------------------
(* The coarse-clock specification: the wrist moves between two positions   *)
(* and Date.now() reads the same value on consecutive frames, or 75ms more *)

TickFrames == { Moving("Right", wx, W0) : wx \in {40, 60} }

TickDts == {0, 75}

NextTick == FrameStep(TickFrames, TickDts, MaxTickFrames)

SpecTick == InitTracking /\ [][NextTick]_vars

----------------------------------------------------------------------------
(* C35: every emitted swipe is computed from an oldest and a newest        *)
(* buffered sample with strictly positive elapsed time (so its speed is    *)
(* finite): five or more buffered samples that all carry one timestamp     *)
(* produce no swipe.  The code divides the displacement by the elapsed     *)
(* time without testing it: with elapsed time 0 and a displacement above   *)
(* 0.15 the velocity is Infinity, which passes the velocity test, and the  *)
(* swipe is emitted with speed Infinity.                                   *)
C35_PositiveElapsed ==
  [][IsFrameStep =>
       \A k \in 1..Len(lastFrame') :
         CallsNamed(delivered', HandId(lastFrame'[k].label, k - 1), "swipe") # {}
           => now' - C26_Buffered(HandId(lastFrame'[k].label, k - 1), k)[1].time > 0]_vars

----------------------------------------------------------------------------
(* Frames of the pointing specification: the pointing pose with the index  *)
(* tip at the wrist or 0.03 or 0.04 away from it along x and y and 0.05 or *)
(* 0.06 along z, in both senses                                            *)

PointFrames ==
  { <<Hand("Right", W0, W0, Point4, Pt(dx, dy, dz), 10, 21)>> :
       dx \in {-4, -3, 0, 3, 4}, dy \in {-4, -3, 0, 3, 4}, dz \in {-6, -5, 0, 5, 6} }

PointDts == {100}

NextPoint == FrameStep(PointFrames, PointDts, MaxPointFrames)

SpecPoint == InitTracking /\ [][NextPoint]_vars

----------------------------------------------------------------------------
(* C36: every point gesture carries one of the 10 direction symbols, never *)
(* an absent direction, whatever the vector (dx, dy, dz) from the wrist to *)
(* the index tip is, the zero vector included; when neither the depth rule *)
(* nor the diagonal rule applies and |dx| = |dy|, the direction is down if *)
(* dy > 0 and up otherwise.                                                *)
C36_Directions ==
  {"forward", "backward", "top-right", "top-left", "bottom-right", "bottom-left",
   "right", "left", "down", "up"}

C36_Tie(v) == ~C9_DepthRule(v) /\ ~C9_DiagonalRule(v) /\ Abs(v.x) = Abs(v.y)

C36_DirectionTotal ==
  \A k \in 1..Len(candidates) :
    candidates[k].gesture.name = "point" =>
      /\ candidates[k].gesture.direction \in C36_Directions
      /\ C36_Tie(PointVector(lastFrame[k])) =>
           candidates[k].gesture.direction
             = (IF PointVector(lastFrame[k]).y > 0 THEN "down" ELSE "up")
      /\ \A j \in 1..Len(delivered) :
           delivered[j].gesture.name = "point" => delivered[j].gesture = candidates[k].gesture

\* the index tip on the wrist: a point gesture with direction up was delivered
C36_Witness ==
  \E k \in 1..Len(candidates) :
    /\ candidates[k].gesture = Gesture("point", "up")
    /\ PointVector(lastFrame[k]) = Zero
    /\ \E j \in 1..Len(delivered) : delivered[j].gesture = Gesture("point", "up")

----------------------------------------------------------------------------
(* Input manager: operations *)

ProviderNames == {"mediapipe", "mock", "other"}

Methods == {"startTracking", "stopTracking", "setVideoElement", "onHandUpdate", "onGestureDetected"}

providerUntouched ==
  UNCHANGED <<now, isTracking, gestureCallbacks, handUpdateCallbacks, handState, ghost,
              pending, scenario, loops>>

\* the callbacks this.onReadyCallbacks.forEach(callback => callback()) invokes:
\* all of them, or those up to the first one that throws
RECURSIVE invokedOf(_)
invokedOf(cbs) ==
  IF cbs = <<>> THEN <<>>
  ELSE IF Head(cbs) \in Throwing THEN <<Head(cbs)>>
       ELSE <<Head(cbs)>> \o invokedOf(Tail(cbs))

forEachThrows(cbs) == \E k \in 1..Len(cbs) : cbs[k] \in Throwing

countedCalls(counts, invoked) ==
  [cb \in DOMAIN counts |->
     counts[cb] + Cardinality({k \in 1..Len(invoked) : invoked[k] = cb})]

\* the catch block of loadProvider(name): fall back to 'mock' after 'mediapipe'
loadProviderCatch(name) ==
  IF name = "mediapipe"
  THEN /\ load' = Waiting("mock", "import")
       /\ attempts' = Append(attempts, "mock")
  ELSE /\ load' = Waiting(name, "failed")
       /\ attempts' = attempts

\* the import resolves: this.provider = new module.default(), then
\* provider.initialize() is called; the mock provider sets its flag at once
loadProviderImported ==
  /\ load.at = "import"
  /\ provider' = load.name
  /\ providerInitialized' = (load.name = "mock")
  /\ load' = Waiting(load.name, "initialize")
  /\ UNCHANGED <<isInitialized, onReadyCallbacks, attempts, passed, readyCalls,
                 managerCalls, forwarded, thrown>>
  /\ providerUntouched

\* the import rejects
loadProviderImportFailed ==
  /\ load.at = "import"
  /\ loadProviderCatch(load.name)
  /\ UNCHANGED <<provider, providerInitialized, isInitialized, onReadyCallbacks, passed,
                 readyCalls, managerCalls, forwarded, thrown>>
  /\ providerUntouched

\* provider.initialize() resolves: isInitialized = true, the ready callbacks
\* are invoked and the list is emptied; a callback that throws ends the
\* forEach inside the try block, before the list is emptied
loadProviderInitialized ==
  /\ load.at = "initialize"
  /\ providerInitialized' = TRUE
  /\ isInitialized' = TRUE
  /\ readyCalls' = countedCalls(readyCalls, invokedOf(onReadyCallbacks))
  /\ IF forEachThrows(onReadyCallbacks)
     THEN /\ loadProviderCatch(load.name)
          /\ UNCHANGED onReadyCallbacks
     ELSE /\ onReadyCallbacks' = <<>>
          /\ load' = Waiting(load.name, "done")
          /\ UNCHANGED attempts
  /\ UNCHANGED <<provider, passed, managerCalls, forwarded, thrown>>
  /\ providerUntouched

\* provider.initialize() rejects (the mock provider's never does)
loadProviderInitializeFailed ==
  /\ load.at = "initialize"
  /\ load.name # "mock"
  /\ loadProviderCatch(load.name)
  /\ UNCHANGED <<provider, providerInitialized, isInitialized, onReadyCallbacks, passed,
                 readyCalls, managerCalls, forwarded, thrown>>
  /\ providerUntouched

\* onReady(callback) with a callback not passed before
onReady(cb) ==
  /\ cb \notin passed
  /\ passed' = passed \cup {cb}
  /\ IF isInitialized
     THEN /\ readyCalls' = countedCalls(readyCalls, <<cb>>)
          /\ UNCHANGED onReadyCallbacks
     ELSE /\ onReadyCallbacks' = Append(onReadyCallbacks, cb)
          /\ UNCHANGED readyCalls
  /\ UNCHANGED <<provider, providerInitialized, isInitialized, load, attempts,
                 managerCalls, forwarded, thrown>>
  /\ providerUntouched

\* managerForward testing the provider instead of isInitialized
managerForwardIfProvider(method) ==
  /\ managerCalls < MaxCalls
  /\ managerCalls' = managerCalls + 1
  /\ IF provider = "null"
     THEN thrown' = TRUE /\ UNCHANGED forwarded
     ELSE thrown' = FALSE /\ forwarded' = Append(forwarded, method)
  /\ UNCHANGED <<provider, providerInitialized, isInitialized, onReadyCallbacks, load,
                 attempts, passed, readyCalls>>
  /\ providerUntouched

\* startTracking, stopTracking, setVideoElement, onHandUpdate and
\* onGestureDetected of the manager: throw when not initialised, else
\* return this.provider.<method>(...)
managerForward(method) ==
  /\ managerCalls < MaxCalls
  /\ managerCalls' = managerCalls + 1
  /\ IF ~isInitialized
     THEN thrown' = TRUE /\ UNCHANGED forwarded
     ELSE thrown' = FALSE /\ forwarded' = Append(forwarded, method)
  /\ UNCHANGED <<provider, providerInitialized, isInitialized, onReadyCallbacks, load,
                 attempts, passed, readyCalls>>
  /\ providerUntouched

\* after new InputManager(name): loadProvider(name) waits for the import
InitManager ==
  /\ InitCommon
  /\ isTracking = FALSE
  /\ gestureCallbacks = <<>> /\ handUpdateCallbacks = <<>>
  /\ pending = <<>> /\ scenario = "free"
  /\ provider = "null" /\ providerInitialized = FALSE
  /\ isInitialized = FALSE
  /\ onReadyCallbacks = <<>>
  /\ \E name \in ProviderNames : load = Waiting(name, "import") /\ attempts = <<name>>
  /\ passed = {}
  /\ readyCalls = [cb \in ReadyCallbacks |-> 0]
  /\ managerCalls = 0 /\ forwarded = <<>> /\ thrown = FALSE

NextManager ==
  \/ loadProviderImported
  \/ loadProviderImportFailed
  \/ loadProviderInitialized
  \/ loadProviderInitializeFailed
  \/ \E cb \in ReadyCallbacks : onReady(cb)
  \/ \E method \in Methods : managerForward(method)

SpecManager == InitManager /\ [][NextManager]_vars

----------------------------------------------------------------------------
(* C37: until the manager's provider has finished initialising (and as     *)
(* long as the manager is not initialised), each of startTracking,         *)
(* stopTracking, setVideoElement, onHandUpdate and onGestureDetected       *)
(* throws 'Input manager not initialized', hands nothing on to the         *)
(* provider and leaves the manager's state as it was.                      *)
ProviderReady == provider # "null" /\ providerInitialized

C37_NotInitializedThrows ==
  [][(managerCalls' = managerCalls + 1 /\ (~ProviderReady \/ ~isInitialized)) =>
       /\ thrown'
       /\ forwarded' = forwarded
       /\ UNCHANGED <<provider, providerInitialized, isInitialized, onReadyCallbacks,
                      load, attempts, passed, readyCalls>>]_vars

\* a method was called while the provider, created, was still initialising:
\* it threw and nothing was handed on
C37_Witness ==
  /\ managerCalls >= 1
  /\ thrown
  /\ forwarded = <<>>
  /\ provider = "mediapipe" /\ ~providerInitialized
  /\ load = Waiting("mediapipe", "initialize")
  /\ onReadyCallbacks # <<>>

----------------------------------------------------------------------------
(* C38: each callback passed to onReady is invoked at most once, and       *)
(* exactly once when a provider has initialised and loading has ended:     *)
(* at once when the manager is initialised at the time it is passed,       *)
(* otherwise when initialisation completes; none is invoked while          *)
(* isInitialized is false.  The callbacks are invoked inside the try block *)
(* of loadProvider: one that throws ends the forEach, leaves the list as   *)
(* it is and sends 'mediapipe' to the fallback, whose success invokes the  *)
(* whole list again and whose failure leaves the rest never invoked.       *)
C38_ReadyExactlyOnce ==
  [][/\ \A cb \in ReadyCallbacks : readyCalls'[cb] <= 1
     /\ readyCalls' # readyCalls => isInitialized'
     /\ \A cb \in passed' \ passed : isInitialized => readyCalls'[cb] = 1
     /\ (isInitialized' /\ load'.at \in {"done", "failed"}) =>
          \A cb \in passed' : readyCalls'[cb] = 1]_vars

----------------------------------------------------------------------------
(* C39: provider loading ends after two loadProvider calls at most: when   *)
(* the import or the initialisation of 'mediapipe' fails, loadProvider is  *)
(* called once more, with 'mock'; when that of 'mock' or of any other name *)
(* fails, it is not called again, the manager is left uninitialised and    *)
(* the pending ready callbacks are never invoked.  The last part fails     *)
(* after the failure of C38: when a ready callback has thrown after        *)
(* 'mediapipe' initialised, the fallback runs with isInitialized already   *)
(* true, and a failing 'mock' leaves the manager initialised.              *)

\* the import or the initialisation of `name` fails on this step
C39_LoadFails(name) ==
  /\ load.name = name
  /\ load.at \in {"import", "initialize"}
  /\ readyCalls' = readyCalls
  /\ (load'.at = "failed" \/ load'.name # name)

C39_TwoAttempts ==
  [][/\ Len(attempts') <= 2
     /\ C39_LoadFails("mediapipe") =>
          /\ attempts' = Append(attempts, "mock")
          /\ load' = Waiting("mock", "import")
     /\ \A name \in ProviderNames \ {"mediapipe"} :
          C39_LoadFails(name) =>
            /\ attempts' = attempts
            /\ load' = Waiting(name, "failed")
            /\ ~isInitialized'
     /\ load.at = "failed" =>
          /\ load' = load /\ attempts' = attempts
          /\ ~isInitialized'
          /\ \A k \in 1..Len(onReadyCallbacks') :
               readyCalls'[onReadyCallbacks'[k]] = readyCalls[onReadyCallbacks'[k]]]_vars

====
